---- MODULE Spec2Model ----
(***************************************************************************)
(* SteLLaFuzz multi-agent seed generation: the conversation core of       *)
(* stellafuzz_mcp/client.py (MCPClient.process_messages_streaming and     *)
(* MCPClient.process_tool_call) and the bounded-retry task loops of the   *)
(* agents (agents/*.py), as state machines.                               *)
(*                                                                         *)
(* Text is a sequence of tokens (the empty sequence is the empty string), *)
(* so that concatenation, joining and searching are computed.  Python's   *)
(* None and "" are both falsy and the code never tells them apart in the  *)
(* places modelled here; both are the empty value ("" for atoms such as   *)
(* names and finish reasons, << >> for text and for ids, an id being a    *)
(* text: <<"c1">>, or <<"tool_", 0>> for f"tool_{idx}").                  *)
(***************************************************************************)
EXTENDS Integers, Sequences, FiniteSets, TLC

VARIABLES
    messages,             \* the message list handed to process_messages_streaming
    pc,                   \* where process_messages_streaming stands
    assistant_text_parts, \* local: list of content fragments of this stream
    tool_calls_acc,       \* local: dict stream index -> slot
    finish_reason,        \* local: last truthy finish_reason of this stream
    tasks,                \* the asyncio tasks of this round trip, in creation order
    orphans,              \* tasks left running after gather raised
    budget,               \* stream events the reasoning service may still send
    requests,             \* streaming requests made since the caller's call
    contentLog,           \* history: every delta.content of this stream, in arrival order
    deltaLog,             \* history: every tool-call delta of this stream, in arrival order
    doneLog,              \* history: the tasks of this round that returned, in that order
    roundStart,           \* history: the message list when this round's request was made
    callStart,            \* history: the message list the caller handed in
    failure,              \* the exception process_messages_streaming raised (<< >> if none)
    agent,                \* the agent method that is running ("" when none)
    apc,                  \* where the agent method stands
    max_tries,            \* the method's max_tries argument
    t,                    \* the attempt index of the method's for loop
    type_list,            \* the shared type_list
    typeIdx,              \* position of the outer per-type loop (design_field)
    result,               \* the method's return value ("" while it runs)
    DB,                   \* the chromadb collections: name -> [ids, documents]
    id_counter,           \* each agent object's id counter(s)
    snapshots,            \* the snapshot files: collection name -> (stem -> dump)
    attemptLog,           \* history: the outcome of each attempt of the current task
    files,                \* the files of the seed directory (extract_sequence_from_inputs)
    seed_sequence_pairs,  \* the shared dict seed_sequence_pairs
    sequence_id,          \* the sequence_id argument of develop_new_seed
    escaped,              \* the exception that left the agent method ("" if none)
    addLog,               \* history: collection name -> the ids passed to add, in order
    stage,                \* the stage of stellafuzz that runs (0 outside stellafuzz)
    loaded,               \* history: collection name -> the ids and documents
                          \* load_memory read from a snapshot
    input,                \* the arguments of a function that is called on its own:
                          \* the text of message_to_json, the name and the
                          \* directory of load_memory
    output                \* what that function returned

clientVars == <<messages, pc, assistant_text_parts, tool_calls_acc, finish_reason,
                tasks, orphans, budget, requests, contentLog, deltaLog, doneLog,
                roundStart, callStart, failure>>
agentVars == <<agent, apc, max_tries, t, type_list, typeIdx, result, DB, id_counter,
               snapshots, attemptLog, files, seed_sequence_pairs, sequence_id, escaped,
               addLog, stage, loaded, input, output>>
vars == <<clientVars, agentVars>>

(***************************************************************************)
(* Bounds of the model.                                                    *)
(***************************************************************************)
MaxEvents == 3        \* stream events over one run of the conversation loop
StreamLen == 4        \* stream events of one observed stream
MaxIndex == 1         \* tool-call stream indices are 0..MaxIndex
TaskEvents == 3       \* stream events of one exchange of an agent task
MaxTries == 3         \* max_tries ranges over 1..MaxTries
MaxTypes == 2         \* type_list holds 0..MaxTypes types
MaxFiles == 2         \* the seed directory holds 0..MaxFiles files
PipeEvents == 1       \* events of one stream during a run of stellafuzz
MaxLoaded == 10       \* an earlier run left 1..MaxLoaded snapshots of a collection

(***************************************************************************)
(* Text helpers.                                                           *)
(***************************************************************************)
RECURSIVE Flatten(_)
\* "".join(parts): the concatenation of a list of texts
Flatten(parts) ==
    IF parts = << >> THEN << >> ELSE Head(parts) \o Flatten(Tail(parts))

Last(s) == s[Len(s)]

IsPrefix(s, u) == Len(s) <= Len(u) /\ SubSeq(u, 1, Len(s)) = s


Min(a, b) == IF a <= b THEN a ELSE b

\* sorted(S) for a finite set of integers
Sorted(S) ==
    CHOOSE s \in [1..Cardinality(S) -> S] :
        \A i, j \in 1..Cardinality(S) : i < j => s[i] < s[j]

(***************************************************************************)
(* What the reasoning service may send: one stream event carries a        *)
(* content fragment, a list of tool-call deltas and a finish reason, any  *)
(* of them empty.                                                          *)
(***************************************************************************)
Indices == 0..MaxIndex

ToolDelta(i, id, type, fn) == [index |-> i, id |-> id, type |-> type, function |-> fn]

\* the first delta of a tool call as the service usually sends it
HeaderDelta(i) ==
    ToolDelta(i, <<"c1">>, "function", <<[name |-> "echo", arguments |-> << >>]>>)

\* a later delta: one fragment of the arguments
ArgsDelta(i, frag) == ToolDelta(i, << >>, "", <<[name |-> "", arguments |-> frag]>>)

\* a delta with no id and no function (tc.function is None)
BareDelta(i) == ToolDelta(i, << >>, "", << >>)

Event(c, tcs, fr) == [content |-> c, tool_calls |-> tcs, finish_reason |-> fr]

\* "function_call" stands for a reason the code does not know
FinishReasons == {"stop", "tool_calls", "length", "content_filter", "function_call"}

\* the streams of the conversation loop: whole or repeated arguments, ids given or
\* not, one or two deltas in an event, every finish reason
LoopEvents ==
    {Event(<<"a">>, << >>, "")}
    \cup {Event(<< >>, <<d>>, "") :
            d \in UNION { {HeaderDelta(i), BareDelta(i), ArgsDelta(i, <<"{", "}">>)}
                          : i \in Indices }}
    \cup {Event(<< >>, <<HeaderDelta(0), d>>, "") :
            d \in {HeaderDelta(MaxIndex), BareDelta(MaxIndex)}}
    \cup {Event(<< >>, << >>, r) : r \in FinishReasons}

\* the streams of the observed aggregation: fragments of text and of arguments
ContentFragments == { <<"a">>, <<"b">> }

ArgFragments == { <<"{">>, <<"}">> }

AggEvents ==
    {Event(c, << >>, "") : c \in ContentFragments \cup {<< >>}}
    \cup {Event(<< >>, <<ArgsDelta(i, f)>>, "") : i \in Indices, f \in ArgFragments}
    \cup {Event(<< >>, <<BareDelta(MaxIndex), ArgsDelta(0, <<"{">>)>>, "")}
    \cup {Event(<< >>, << >>, r) : r \in {"stop", "tool_calls", "length"}}

(***************************************************************************)
(* process_messages_streaming: the aggregation of one stream.             *)
(***************************************************************************)
\* mutant: the fragment replaces the arguments the way a name replaces the name
AppendArgumentsReplaces(old, fragment) == fragment

\* line 189: slot["function"]["arguments"] += tc.function.arguments
AppendArguments(old, fragment) == old \o fragment

\* mutant: the id of a slot is set once, by the first delta that has one
ApplyToolCallFirstId(acc, tc) ==
    LET idx == tc.index
        created == IF idx \in DOMAIN acc
                   THEN acc
                   ELSE acc @@ (idx :> [id |-> << >>, type |-> tc.type,
                                        function |-> [name |-> "", arguments |-> << >>]])
        slot0 == created[idx]
        slot1 == IF tc.id # << >> /\ slot0.id = << >>
                 THEN [slot0 EXCEPT !.id = tc.id] ELSE slot0
        slot2 == IF tc.function # << >>
                 THEN LET f == tc.function[1]
                          n == IF f.name # "" THEN f.name ELSE slot1.function.name
                          a == IF f.arguments # << >>
                               THEN AppendArguments(slot1.function.arguments, f.arguments)
                               ELSE slot1.function.arguments
                      IN [slot1 EXCEPT !.function = [name |-> n, arguments |-> a]]
                 ELSE slot1
    IN [created EXCEPT ![idx] = slot2]

\* the body of "for tc in delta.tool_calls" for one tc
ApplyToolCall(acc, tc) ==
    LET idx == tc.index
        created == IF idx \in DOMAIN acc
                   THEN acc
                   ELSE acc @@ (idx :> [id |-> << >>, type |-> tc.type,
                                        function |-> [name |-> "", arguments |-> << >>]])
        slot0 == created[idx]
        slot1 == IF tc.id # << >> THEN [slot0 EXCEPT !.id = tc.id] ELSE slot0
        slot2 == IF tc.function # << >>
                 THEN LET f == tc.function[1]
                          n == IF f.name # "" THEN f.name ELSE slot1.function.name
                          a == IF f.arguments # << >>
                               THEN AppendArguments(slot1.function.arguments, f.arguments)
                               ELSE slot1.function.arguments
                      IN [slot1 EXCEPT !.function = [name |-> n, arguments |-> a]]
                 ELSE slot1
    IN [created EXCEPT ![idx] = slot2]

RECURSIVE ApplyToolCalls(_, _)
\* "if delta.tool_calls: for tc in delta.tool_calls: ..."
ApplyToolCalls(acc, tcs) ==
    IF tcs = << >> THEN acc
    ELSE ApplyToolCalls(ApplyToolCall(acc, Head(tcs)), Tail(tcs))

\* "if delta.content: assistant_text_parts.append(delta.content)"
AppendContent(parts, content) ==
    IF content # << >> THEN Append(parts, content) ELSE parts

\* "if choice.finish_reason: finish_reason = choice.finish_reason"
UpdateFinish(old, fr) == IF fr # "" THEN fr ELSE old

\* mutant: only the last fragment is kept as the content
AssistantTextLastOnly(parts) ==
    [role |-> "assistant", content |-> IF parts = << >> THEN << >> ELSE Last(parts)]

\* the assistant message of a stream that ended with "stop"
AssistantText(parts) == [role |-> "assistant", content |-> Flatten(parts)]

\* one finalized tool-call request
FinalToolCall(idx, slot) ==
    [id |-> IF slot.id # << >> THEN slot.id ELSE <<"tool_", idx>>,
     type |-> IF slot.type # "" THEN slot.type ELSE "function",
     function |-> [name |-> slot.function.name, arguments |-> slot.function.arguments]]

\* "for idx in sorted(tool_calls_acc.keys()): assistant_tool_calls.append(...)"
AssistantToolCalls(acc) ==
    LET order == Sorted(DOMAIN acc)
    IN [k \in 1..Len(order) |-> FinalToolCall(order[k], acc[order[k]])]

\* mutant: the text collected so far rides along with the tool calls
AssistantToolCallMessageWithText(calls) ==
    [role |-> "assistant", tool_calls |-> calls,
     content |-> Flatten(assistant_text_parts)]

AssistantToolCallMessage(calls) == [role |-> "assistant", tool_calls |-> calls]


(***************************************************************************)
(* process_tool_call: one asyncio task per finalized tool call.           *)
(***************************************************************************)
max_try == 5

TextCap == 256000

ErrorMarker == <<"[ERROR] Tool call failed">>

\* line 120: the marker followed by str(call_tool_result), which shows the texts of
\* the result's parts
ErrorMessage(call_tool_result) ==
    ErrorMarker \o Flatten([i \in 1..Len(call_tool_result.content) |->
                               call_tool_result.content[i].text])

\* mutant: the slice keeps one character more
TruncateOneMore(text) == SubSeq(text, 1, Min(Len(text), TextCap + 1))

\* result.text[:256000]
Truncate(text) == SubSeq(text, 1, Min(Len(text), TextCap))

TextPart(text) == [type |-> "text", text |-> text]

ImagePart == [type |-> "image", text |-> << >>]

\* what session.call_tool may come back with
CallToolResults ==
    { [isError |-> TRUE, raises |-> FALSE, content |-> << >>],
      [isError |-> FALSE, raises |-> TRUE, content |-> << >>] }
    \cup { [isError |-> FALSE, raises |-> FALSE, content |-> c] :
             c \in { <<TextPart(<<"p">>)>>, <<ImagePart>> } }

\* json.loads(tool_call['function']['arguments'] or "{}") does not raise; over the
\* alphabet of the argument fragments the only JSON document is {}
JsonLoadsOk(arguments) ==
    LET text == IF arguments # << >> THEN arguments ELSE <<"{", "}">>
    IN text = <<"{", "}">>

\* a task: its tool call, where it stands, the loop variable t, error_message, the
\* message it returned (out) or the exception it raised (exc), and as history the
\* results session.call_tool gave it (log)
NewTask(tc) ==
    [call |-> tc, pc |-> "created", t |-> 0, log |-> << >>,
     error_message |-> << >>, out |-> << >>, exc |-> ""]

\* an exception leaves the coroutine: its locals are gone, the exception is kept
Raise(task, exc) == [NewTask(task.call) EXCEPT !.pc = "raised", !.exc = exc]

\* the task runs from its start to its first await (lines 108-117)
StartTask(task) ==
    IF task.call.type # "function"
    THEN Raise(task, "AssertionError")
    ELSE IF ~JsonLoadsOk(task.call.function.arguments)
    THEN Raise(task, "JSONDecodeError")
    ELSE [task EXCEPT !.pc = "calling"]

\* "for result in call_tool_result.content" (lines 128-132): the texts, or a raise
HasNonText(content) == \E i \in 1..Len(content) : content[i].type # "text"

ResultTexts(content) == [i \in 1..Len(content) |-> Truncate(content[i].text)]

\* mutant: the result message carries the tool's name as its tool_call_id
ToolMessageNameAsId(tc, results) ==
    [role |-> "tool",
     content |-> [tool_name |-> tc.function.name, results |-> results],
     tool_call_id |-> <<tc.function.name>>]

\* the ChatCompletionToolMessageParam of lines 134-141; tool_args is {} here
ToolMessage(tc, results) ==
    [role |-> "tool",
     content |-> [tool_name |-> tc.function.name, results |-> results],
     tool_call_id |-> tc.id]

\* mutant: the loop runs once more than max_try
RetryAllowedOnceMore(tries) == tries + 1 <= max_try

\* "for t in range(max_try)": another iteration follows iteration t
RetryAllowed(tries) == tries + 1 < max_try

\* mutant: the error message is dropped
ErrorResultsEmpty(error_message) == << >>

\* lines 125-126: the results of a call whose last invocation reported an error
ErrorResults(error_message) == <<error_message>>

\* call_tool came back with r: the rest of the retry loop up to the next await,
\* or to the end of process_tool_call (lines 117-141)
ResumeTask(task, r) ==
    LET logged == [task EXCEPT !.log = Append(@, r)]
    IN IF r.raises
       THEN Raise(task, "TransportError")
       ELSE IF r.isError
       THEN LET msg == IF task.t = max_try - 1 THEN ErrorMessage(r)
                       ELSE task.error_message
            IN IF RetryAllowed(task.t)
               THEN [logged EXCEPT !.t = @ + 1, !.error_message = msg]
               ELSE [logged EXCEPT !.pc = "done", !.error_message = msg,
                                   !.out = <<ToolMessage(task.call, ErrorResults(msg))>>]
       ELSE IF HasNonText(r.content)
       THEN Raise(task, "NotImplementedError")
       ELSE [logged EXCEPT !.pc = "done",
                           !.out = <<ToolMessage(task.call, ResultTexts(r.content))>>]

\* the number of session.call_tool invocations a task has made
Invocations(task) == Len(task.log) + (IF task.pc = "calling" THEN 1 ELSE 0)


(***************************************************************************)
(* process_messages_streaming as a state machine.  pc is "Idle" outside   *)
(* a call, "AwaitingModel" when the call (or its recursive call) is       *)
(* entered, "Streaming" while the stream is consumed, "AwaitingTools"     *)
(* while gather waits for the tasks, "Done" after return messages,        *)
(* "Fatal" after one of the raises of lines 239-245, "Raised" after any   *)
(* other exception left the call.                                          *)
(***************************************************************************)
InitialMessages ==
    << [role |-> "system", content |-> <<"system prompt">>],
       [role |-> "user", content |-> <<"user prompt">>] >>

ClearLocals ==
    /\ assistant_text_parts' = << >>
    /\ tool_calls_acc' = << >>
    /\ finish_reason' = ""

Exception(type, message) == [type |-> type, message |-> message]

\* the raise statements of lines 239-245
FatalFailure(reason) ==
    IF reason = "length"
    THEN Exception("ValueError", <<"[ERROR] Length limit reached while streaming">>)
    ELSE IF reason = "content_filter"
    THEN Exception("ValueError", <<"[ERROR] Content filter triggered while streaming">>)
    ELSE Exception("ValueError", <<"[ERROR] Unknown finish reason during streaming", reason>>)

\* lines 151-164: the tools are listed, the request is made, the locals are set up
RequestModel ==
    /\ pc = "AwaitingModel"
    /\ pc' = "Streaming"
    /\ requests' = requests + 1
    /\ ClearLocals
    /\ contentLog' = << >>
    /\ deltaLog' = << >>
    /\ doneLog' = << >>
    /\ roundStart' = messages
    /\ UNCHANGED <<messages, tasks, orphans, budget, callStart, failure>>
    /\ UNCHANGED agentVars

\* lines 169-192: one iteration of "for event in stream"
StreamStep(ev) ==
    /\ pc = "Streaming"
    /\ budget > 0
    /\ budget' = budget - 1
    /\ assistant_text_parts' = AppendContent(assistant_text_parts, ev.content)
    /\ tool_calls_acc' = ApplyToolCalls(tool_calls_acc, ev.tool_calls)
    /\ finish_reason' = UpdateFinish(finish_reason, ev.finish_reason)
    /\ UNCHANGED <<messages, pc, tasks, orphans, requests, roundStart, callStart,
                   failure, doneLog>>
    /\ UNCHANGED agentVars

\* the stream delivers ev
StreamEvent(ev) ==
    /\ StreamStep(ev)
    /\ UNCHANGED <<contentLog, deltaLog, doneLog>>

\* the stream delivers ev and the history of the stream is kept
ObservedStreamEvent(ev) ==
    /\ StreamStep(ev)
    /\ contentLog' = Append(contentLog, ev.content)
    /\ deltaLog' = deltaLog \o ev.tool_calls

\* the request or the stream raises (a transport failure)
StreamFails ==
    /\ pc = "Streaming"
    /\ pc' = "Raised"
    /\ failure' = Exception("APIError", <<"transport">>)
    /\ ClearLocals
    /\ UNCHANGED <<messages, tasks, orphans, budget, requests, contentLog, deltaLog,
                   roundStart, callStart, doneLog>>
    /\ UNCHANGED agentVars

\* mutant: "length" is taken for an ordinary end of the answer
FinishStopOnLength ==
    /\ pc = "Streaming"
    /\ finish_reason \in {"stop", "length"}
    /\ messages' = Append(messages, AssistantText(assistant_text_parts))
    /\ pc' = "Done"
    /\ ClearLocals
    /\ UNCHANGED <<tasks, orphans, budget, requests, contentLog, deltaLog, roundStart,
                   callStart, failure, doneLog>>
    /\ UNCHANGED agentVars

\* mutant: a finish_reason the code does not know is taken for the end of the answer
FinishStopOnUnknown ==
    /\ pc = "Streaming"
    /\ finish_reason \notin {"tool_calls", "length", "content_filter"}
    /\ messages' = Append(messages, AssistantText(assistant_text_parts))
    /\ pc' = "Done"
    /\ ClearLocals
    /\ UNCHANGED <<tasks, orphans, budget, requests, contentLog, deltaLog, roundStart,
                   callStart, failure, doneLog>>
    /\ UNCHANGED agentVars

\* lines 197-205: the stream is over and finish_reason == "stop"
FinishStop ==
    /\ pc = "Streaming"
    /\ finish_reason = "stop"
    /\ messages' = Append(messages, AssistantText(assistant_text_parts))
    /\ pc' = "Done"
    /\ ClearLocals
    /\ UNCHANGED <<tasks, orphans, budget, requests, contentLog, deltaLog, roundStart,
                   callStart, failure, doneLog>>
    /\ UNCHANGED agentVars

\* lines 207-231: the stream is over and finish_reason == "tool_calls"; the
\* assistant message is appended and one task per tool call is created
FinishToolCalls ==
    /\ pc = "Streaming"
    /\ finish_reason = "tool_calls"
    /\ LET calls == AssistantToolCalls(tool_calls_acc)
       IN /\ messages' = Append(messages, AssistantToolCallMessage(calls))
          /\ tasks' = [k \in 1..Len(calls) |-> NewTask(calls[k])]
    /\ pc' = "AwaitingTools"
    /\ ClearLocals
    /\ UNCHANGED <<orphans, budget, requests, contentLog, deltaLog, roundStart,
                   callStart, failure, doneLog>>
    /\ UNCHANGED agentVars

\* mutant: the partial answer is appended before the failure is raised
FinishFatalAppends ==
    /\ pc = "Streaming"
    /\ finish_reason \notin {"stop", "tool_calls"}
    /\ pc' = "Fatal"
    /\ failure' = FatalFailure(finish_reason)
    /\ messages' = Append(messages, AssistantText(assistant_text_parts))
    /\ ClearLocals
    /\ UNCHANGED <<tasks, orphans, budget, requests, contentLog, deltaLog,
                   roundStart, callStart, doneLog>>
    /\ UNCHANGED agentVars

\* mutant: the failure discards what the earlier round trips of the call appended
FinishFatalRollsBack ==
    /\ pc = "Streaming"
    /\ finish_reason \notin {"stop", "tool_calls"}
    /\ pc' = "Fatal"
    /\ failure' = FatalFailure(finish_reason)
    /\ messages' = callStart
    /\ ClearLocals
    /\ UNCHANGED <<tasks, orphans, budget, requests, contentLog, deltaLog,
                   roundStart, callStart, doneLog>>
    /\ UNCHANGED agentVars

\* mutant: only length and content_filter are handled after stop and tool_calls
FinishFatalKnownOnly ==
    /\ pc = "Streaming"
    /\ finish_reason \in {"length", "content_filter"}
    /\ pc' = "Fatal"
    /\ failure' = FatalFailure(finish_reason)
    /\ ClearLocals
    /\ UNCHANGED <<messages, tasks, orphans, budget, requests, contentLog, deltaLog,
                   roundStart, callStart, doneLog>>
    /\ UNCHANGED agentVars

\* lines 239-245: the stream is over with any other finish_reason (or none)
FinishFatal ==
    /\ pc = "Streaming"
    /\ finish_reason \notin {"stop", "tool_calls"}
    /\ pc' = "Fatal"
    /\ failure' = FatalFailure(finish_reason)
    /\ ClearLocals
    /\ UNCHANGED <<messages, tasks, orphans, budget, requests, contentLog, deltaLog,
                   roundStart, callStart, doneLog>>
    /\ UNCHANGED agentVars

\* a created task gets the event loop for the first time
TaskStart(k) ==
    /\ pc = "AwaitingTools"
    /\ k \in DOMAIN tasks
    /\ tasks[k].pc = "created"
    /\ tasks' = [tasks EXCEPT ![k] = StartTask(@)]
    /\ UNCHANGED <<messages, pc, assistant_text_parts, tool_calls_acc, finish_reason,
                   orphans, budget, requests, contentLog, deltaLog, roundStart,
                   callStart, failure, doneLog>>
    /\ UNCHANGED agentVars

\* session.call_tool of task k comes back and the task runs to its next await or
\* to its end
TaskStep(k, r) ==
    /\ pc = "AwaitingTools"
    /\ k \in DOMAIN tasks
    /\ tasks[k].pc = "calling"
    /\ tasks' = [tasks EXCEPT ![k] = ResumeTask(@, r)]
    /\ UNCHANGED <<messages, pc, assistant_text_parts, tool_calls_acc, finish_reason,
                   orphans, budget, requests, contentLog, deltaLog, roundStart,
                   callStart, failure>>
    /\ UNCHANGED agentVars

\* session.call_tool of task k comes back
TaskReturn(k, r) ==
    /\ TaskStep(k, r)
    /\ UNCHANGED doneLog

\* session.call_tool of task k comes back and the order in which the tasks return
\* their message is kept
ObservedTaskReturn(k, r) ==
    /\ TaskStep(k, r)
    /\ doneLog' = IF tasks'[k].pc = "done" THEN Append(doneLog, k) ELSE doneLog

\* mutant: the outputs are collected as soon as one task is done
GatherReturnFirstDone ==
    /\ pc = "AwaitingTools"
    /\ \A k \in DOMAIN tasks : tasks[k].pc # "raised"
    /\ tasks = << >> \/ \E k \in DOMAIN tasks : tasks[k].pc = "done"
    /\ LET done(task) == task.pc = "done"
           finished == SelectSeq(tasks, done)
       IN messages' = messages \o [k \in DOMAIN finished |-> finished[k].out[1]]
    /\ tasks' = << >>
    /\ pc' = "AwaitingModel"
    /\ UNCHANGED <<assistant_text_parts, tool_calls_acc, finish_reason, orphans, budget,
                   requests, contentLog, deltaLog, roundStart, callStart, failure,
                   doneLog>>
    /\ UNCHANGED agentVars

\* mutant: the outputs are appended in the order in which the tasks returned
GatherReturnAsCompleted ==
    /\ pc = "AwaitingTools"
    /\ \A k \in DOMAIN tasks : tasks[k].pc = "done"
    /\ messages' = messages \o [n \in DOMAIN doneLog |-> tasks[doneLog[n]].out[1]]
    /\ tasks' = << >>
    /\ pc' = "AwaitingModel"
    /\ UNCHANGED <<assistant_text_parts, tool_calls_acc, finish_reason, orphans, budget,
                   requests, contentLog, deltaLog, roundStart, callStart, failure,
                   doneLog>>
    /\ UNCHANGED agentVars

\* lines 232-237: gather returns the outputs in task order, they are appended and
\* the method calls itself
GatherReturn ==
    /\ pc = "AwaitingTools"
    /\ \A k \in DOMAIN tasks : tasks[k].pc = "done"
    /\ messages' = messages \o [k \in DOMAIN tasks |-> tasks[k].out[1]]
    /\ tasks' = << >>
    /\ pc' = "AwaitingModel"
    /\ UNCHANGED <<assistant_text_parts, tool_calls_acc, finish_reason, orphans, budget,
                   requests, contentLog, deltaLog, roundStart, callStart, failure,
                   doneLog>>
    /\ UNCHANGED agentVars

\* a task still running when gather raises: it is not cancelled
Unfinished(task) == task.pc \in {"created", "calling"}

\* mutant: the exception of a task is turned into that call's result and the
\* conversation goes on
GatherRaiseEmbeds(k) ==
    /\ pc = "AwaitingTools"
    /\ k \in DOMAIN tasks
    /\ tasks[k].pc = "raised"
    /\ pc' = "AwaitingModel"
    /\ messages' = messages \o
          [j \in DOMAIN tasks |->
              IF tasks[j].pc = "done" THEN tasks[j].out[1]
              ELSE ToolMessage(tasks[j].call, <<ErrorMarker>>)]
    /\ tasks' = << >>
    /\ UNCHANGED <<assistant_text_parts, tool_calls_acc, finish_reason, budget, orphans,
                   requests, contentLog, deltaLog, roundStart, callStart, failure,
                   doneLog>>
    /\ UNCHANGED agentVars

\* line 232: a task raised, gather raises its exception out of the method
GatherRaise(k) ==
    /\ pc = "AwaitingTools"
    /\ k \in DOMAIN tasks
    /\ tasks[k].pc = "raised"
    /\ pc' = "Raised"
    /\ failure' = Exception(tasks[k].exc, << >>)
    /\ orphans' = orphans \o SelectSeq(tasks, Unfinished)
    /\ tasks' = << >>
    /\ UNCHANGED <<messages, assistant_text_parts, tool_calls_acc, finish_reason, budget,
                   requests, contentLog, deltaLog, roundStart, callStart, doneLog>>
    /\ UNCHANGED agentVars

\* a task that outlived its round trip goes on; its outcome is never read
OrphanStep(k, r) ==
    /\ k \in DOMAIN orphans
    /\ LET o == orphans[k]
           next == IF o.pc = "created" THEN StartTask(o) ELSE ResumeTask(o, r)
       IN orphans' = SelectSeq([orphans EXCEPT ![k] = next], Unfinished)
    /\ UNCHANGED <<messages, pc, assistant_text_parts, tool_calls_acc, finish_reason,
                   tasks, budget, requests, contentLog, deltaLog, roundStart, callStart,
                   failure, doneLog>>
    /\ UNCHANGED agentVars

\* a list an earlier call has returned: it ends with the final assistant text
DoneMessages == Append(InitialMessages, [role |-> "assistant", content |-> <<"a">>])

\* the call is entered with the caller's list; events bounds the streams
ClientInit(events, inputs) ==
    /\ messages \in inputs
    /\ pc = "AwaitingModel"
    /\ assistant_text_parts = << >>
    /\ tool_calls_acc = << >>
    /\ finish_reason = ""
    /\ tasks = << >>
    /\ orphans = << >>
    /\ budget = events
    /\ requests = 0
    /\ contentLog = << >>
    /\ deltaLog = << >>
    /\ doneLog = << >>
    /\ roundStart = messages
    /\ callStart = messages
    /\ failure = << >>

\* the collections stellafuzz creates for the agents (coverage_DB is never used)
CollectionNames == {"format_spec_DB", "sequence_DB", "component_DB"}

EmptyCollection == [ids |-> << >>, documents |-> << >>]

\* the id counters of the agent objects
CounterNames ==
    {"FORMAT_ANALYST.id_counter", "FORMAT_ANALYST.id_counter_sequence",
     "SEQUENCE_PLANNER.id_counter", "FIELD_DESIGNER.id_counter",
     "DEVELOPER.id_counter"}

\* fresh collections, fresh counters and no snapshot file
EmptyMemory ==
    /\ DB = [c \in CollectionNames |-> EmptyCollection]
    /\ id_counter = [c \in CounterNames |-> 0]
    /\ snapshots = [c \in CollectionNames |-> << >>]
    /\ addLog = [c \in CollectionNames |-> << >>]

\* message_to_json is not being called on its own
NoExtraction ==
    /\ input = << >>
    /\ output = << >>

\* process_messages_streaming called on its own: no agent method is running
NoAgent ==
    /\ agent = ""
    /\ apc = ""
    /\ max_tries = 0
    /\ t = 0
    /\ type_list = << >>
    /\ typeIdx = 0
    /\ result = ""
    /\ EmptyMemory
    /\ attemptLog = << >>
    /\ files = << >>
    /\ seed_sequence_pairs = << >>
    /\ sequence_id = 0
    /\ escaped = ""
    /\ stage = 0
    /\ loaded = [c \in CollectionNames |-> EmptyCollection]
    /\ NoExtraction

Init == ClientInit(MaxEvents, {InitialMessages}) /\ NoAgent

Next ==
    \/ RequestModel
    \/ \E ev \in LoopEvents : StreamEvent(ev)
    \/ StreamFails
    \/ FinishStop
    \/ FinishToolCalls
    \/ FinishFatal
    \/ \E k \in 1..(MaxIndex + 1) : TaskStart(k)
    \/ \E k \in 1..(MaxIndex + 1), r \in CallToolResults : TaskReturn(k, r)
    \/ GatherReturn
    \/ \E k \in 1..(MaxIndex + 1) : GatherRaise(k)
    \/ \E k \in 1..(MaxIndex + 1), r \in CallToolResults : OrphanStep(k, r)

Spec == Init /\ [][Next]_vars

\* the scheduling of one call: the request is made, the stream ends, the event
\* loop runs every task that can run, session.call_tool comes back, and gather
\* returns or raises
Fairness ==
    /\ WF_vars(RequestModel)
    /\ WF_vars(FinishStop \/ FinishToolCalls \/ FinishFatal)
    /\ \A k \in 1..(MaxIndex + 1) :
          /\ WF_vars(TaskStart(k))
          /\ WF_vars(\E r \in CallToolResults : TaskReturn(k, r))
          /\ WF_vars(GatherRaise(k))
    /\ WF_vars(GatherReturn)

SpecLive == Init /\ [][Next]_vars /\ Fairness

(***************************************************************************)
(* process_tool_call with long texts: one tool call has been requested,   *)
(* its task is created, and the tool comes back with texts around the     *)
(* limit of line 130, in one part or two, or with an error whose result   *)
(* holds a long text.                                                     *)
(***************************************************************************)
MaxOver == 1

LongText(n) == [i \in 1..n |-> "x"]

\* what session.call_tool comes back with: texts of 1 and of about TextCap
\* characters
LongToolResults ==
    LET ToolTexts == {LongText(n) : n \in {1} \cup ((TextCap - 1)..(TextCap + MaxOver))}
    IN { [isError |-> FALSE, raises |-> FALSE, content |-> <<TextPart(x)>>] :
           x \in ToolTexts }
       \cup { [isError |-> FALSE, raises |-> FALSE,
               content |-> <<TextPart(LongText(TextCap + MaxOver)), TextPart(<<"p">>)>>],
             [isError |-> TRUE, raises |-> FALSE,
               content |-> <<TextPart(LongText(TextCap + MaxOver))>>],
             [isError |-> TRUE, raises |-> FALSE, content |-> << >>] }

\* the state lines 207-231 leave: the assistant message with one tool call is
\* appended and the call's task is created
ToolInit ==
    /\ LET calls == AssistantToolCalls(
                       ApplyToolCalls(<< >>, <<HeaderDelta(0), ArgsDelta(0, <<"{", "}">>)>>))
       IN /\ messages = Append(InitialMessages, AssistantToolCallMessage(calls))
          /\ tasks = [k \in 1..Len(calls) |-> NewTask(calls[k])]
    /\ pc = "AwaitingTools"
    /\ assistant_text_parts = << >>
    /\ tool_calls_acc = << >>
    /\ finish_reason = ""
    /\ orphans = << >>
    /\ budget = 0
    /\ requests = 1
    /\ contentLog = << >>
    /\ deltaLog = << >>
    /\ doneLog = << >>
    /\ roundStart = InitialMessages
    /\ callStart = InitialMessages
    /\ failure = << >>
    /\ NoAgent

ToolNext ==
    \/ TaskStart(1)
    \/ \E r \in LongToolResults : TaskReturn(1, r)
    \/ GatherReturn

SpecTool == ToolInit /\ [][ToolNext]_vars

(***************************************************************************)
(* The conversation loop, observed: the deltas of the stream are recorded *)
(* as they arrive and the tasks as they return.                           *)
(***************************************************************************)
OrderEvents ==
    {Event(<< >>, <<d>>, "") : d \in UNION { {HeaderDelta(i), BareDelta(i)} : i \in Indices }}
    \cup {Event(<< >>, <<ArgsDelta(0, <<"{">>)>>, "")}
    \cup {Event(<< >>, << >>, r) : r \in {"stop", "tool_calls"}}

OrderNext ==
    \/ RequestModel
    \/ \E ev \in OrderEvents : ObservedStreamEvent(ev)
    \/ FinishStop
    \/ FinishToolCalls
    \/ FinishFatal
    \/ \E k \in 1..(MaxIndex + 1) : TaskStart(k)
    \/ \E k \in 1..(MaxIndex + 1), r \in CallToolResults : ObservedTaskReturn(k, r)
    \/ GatherReturn
    \/ \E k \in 1..(MaxIndex + 1) : GatherRaise(k)

SpecOrder == Init /\ [][OrderNext]_vars

\* the same call, handed a list that an earlier call has returned
ResubmitInit == ClientInit(MaxEvents, {DoneMessages}) /\ NoAgent

SpecResubmit == ResubmitInit /\ [][Next]_vars


(***************************************************************************)
(* The aggregation of one stream, observed: the call is entered with a    *)
(* fresh list, the stream's events are recorded as they arrive, and the   *)
(* stream is finalized (no tool is run here).                             *)
(***************************************************************************)
AggInit == ClientInit(StreamLen, {InitialMessages}) /\ NoAgent

AggNext ==
    \/ RequestModel
    \/ \E ev \in AggEvents : ObservedStreamEvent(ev)
    \/ FinishStop
    \/ FinishToolCalls
    \/ FinishFatal

SpecAgg == AggInit /\ [][AggNext]_vars

(***************************************************************************)
(* The aggregation of one stream whose deltas carry ids and names: an id  *)
(* or a name may come once, never, or again with another value.           *)
(***************************************************************************)
IdNext ==
    LET named(n) == <<[name |-> n, arguments |-> << >>]>>
        deltas == UNION { {ToolDelta(i, <<"c1">>, "function", named("echo")),
                           ToolDelta(i, <<"c2">>, "function", named("read")),
                           ToolDelta(i, << >>, "", named("")),
                           BareDelta(i)} : i \in Indices }
    IN \/ RequestModel
       \/ \E d \in deltas : ObservedStreamEvent(Event(<< >>, <<d>>, ""))
       \/ \E r \in {"stop", "tool_calls"} : ObservedStreamEvent(Event(<< >>, << >>, r))
       \/ FinishStop
       \/ FinishToolCalls
       \/ FinishFatal

SpecIds == AggInit /\ [][IdNext]_vars

RECURSIVE OwnFragments(_, _)
\* the arguments fragments of index idx among the recorded deltas, in arrival order
OwnFragments(log, idx) ==
    IF log = << >> THEN << >>
    ELSE LET d == Head(log)
             rest == OwnFragments(Tail(log), idx)
         IN IF d.index = idx /\ d.function # << >>
            THEN <<d.function[1].arguments>> \o rest
            ELSE rest

\* the indices of the recorded deltas
SeenIndices(log) == {log[n].index : n \in 1..Len(log)}

\* C1: when the stream ended with tool_calls, the finalized arguments of each index
\* are the concatenation of that index's own fragments in arrival order, whatever
\* deltas of other indices arrived in between
C1_ArgumentsPerIndex ==
    (pc = "AwaitingTools") =>
        LET calls == Last(messages).tool_calls
            order == Sorted(SeenIndices(deltaLog))
        IN /\ Len(calls) = Len(order)
           /\ \A k \in 1..Len(calls) :
                calls[k].function.arguments = Flatten(OwnFragments(deltaLog, order[k]))

\* index 0 got "{" and "}" with a fragment of index 1 in between
C1_Witness ==
    /\ pc = "AwaitingTools"
    /\ deltaLog = <<ArgsDelta(0, <<"{">>), ArgsDelta(1, <<"}">>), ArgsDelta(0, <<"}">>)>>
    /\ Last(messages).tool_calls[1].function.arguments = <<"{", "}">>
    /\ Last(messages).tool_calls[2].function.arguments = <<"}">>

\* C2: when the stream ended with stop, exactly one assistant message is appended,
\* its content is the concatenation of all content fragments in arrival order, it
\* carries no tool calls and no tool is dispatched
C2_StopAppendsText ==
    (pc = "Done") =>
        /\ messages = Append(roundStart,
                             [role |-> "assistant", content |-> Flatten(contentLog)])
        /\ "tool_calls" \notin DOMAIN Last(messages)
        /\ tasks = << >>
        /\ orphans = << >>

\* text in two fragments, a tool-call delta in the same stream, then stop
C2_Witness ==
    /\ pc = "Done"
    /\ contentLog = << <<"a">>, << >>, <<"b">>, << >> >>
    /\ deltaLog # << >>
    /\ Last(messages).content = <<"a", "b">>


(***************************************************************************)
(* Properties of the conversation loop (checked under Spec).              *)
(***************************************************************************)
IsAssistantText(m) == m.role = "assistant" /\ "content" \in DOMAIN m

IsToolCallMessage(m) == m.role = "assistant" /\ "tool_calls" \in DOMAIN m

\* a list is Done when it ends with a final assistant text
IsDone(list) == list # << >> /\ IsAssistantText(Last(list))

\* C3: a stream that ends with length or content_filter makes the call raise, and
\* the message list is what it was before this round trip's assistant turn; what
\* earlier round trips of the call appended is still there
C3_FatalKeepsMessages ==
    [][(/\ pc = "Streaming"
        /\ finish_reason \in {"length", "content_filter"}
        /\ pc' \notin {"Streaming", "Raised"})
       => (/\ pc' = "Fatal"
           /\ failure' = FatalFailure(finish_reason)
           /\ messages' = roundStart
           /\ IsPrefix(callStart, messages'))]_vars

\* the second round trip of a call ended with length, after a tool round trip
C3_Witness ==
    /\ pc = "Fatal"
    /\ failure = FatalFailure("length")
    /\ requests = 2
    /\ Len(messages) = Len(callStart) + 2
    /\ messages = roundStart

\* the position of the assistant message that precedes position j (0 if none)
PrecedingAssistant(list, j) ==
    LET before == {i \in 1..(j - 1) : list[i].role = "assistant"}
    IN IF before = {} THEN 0 ELSE CHOOSE i \in before : \A h \in before : h <= i

\* the tool messages that follow position i up to the next message of another role
ResultsAfter(list, i) ==
    {j \in (i + 1)..Len(list) : \A h \in (i + 1)..j : list[h].role = "tool"}

\* C4 (as amended): in a returned list every assistant tool-call message with K
\* requests is followed by exactly K tool-result messages, the k-th with the id of
\* the k-th request, and every tool-result message is one of these
C4_ResultsFollowRequests ==
    (pc = "Done") =>
        /\ \A i \in 1..Len(messages) :
             IsToolCallMessage(messages[i]) =>
                LET calls == messages[i].tool_calls
                IN /\ ResultsAfter(messages, i) = (i + 1)..(i + Len(calls))
                   /\ \A k \in 1..Len(calls) :
                        messages[i + k].tool_call_id = calls[k].id
        /\ \A j \in 1..Len(messages) :
             messages[j].role = "tool" =>
                LET i == PrecedingAssistant(messages, j)
                IN i > 0 /\ IsToolCallMessage(messages[i]) /\ j \in ResultsAfter(messages, i)

\* a returned list with two requests of different ids and their two results
C4_Witness ==
    /\ pc = "Done"
    /\ Len(messages) = 6
    /\ IsToolCallMessage(messages[3])
    /\ messages[3].tool_calls[1].id # messages[3].tool_calls[2].id
    /\ messages[4].role = "tool"
    /\ messages[5].role = "tool"

\* C4 (as claimed): every tool-result message has the id of exactly one request of
\* the preceding assistant tool-call message, and every request has exactly one
\* tool-result message with its id before the next assistant message
C4_MatchedById ==
    (pc = "Done") =>
        /\ \A j \in 1..Len(messages) :
             messages[j].role = "tool" =>
                LET i == PrecedingAssistant(messages, j)
                IN /\ i > 0
                   /\ IsToolCallMessage(messages[i])
                   /\ Cardinality({k \in 1..Len(messages[i].tool_calls) :
                          messages[i].tool_calls[k].id = messages[j].tool_call_id}) = 1
        /\ \A i \in 1..Len(messages) :
             IsToolCallMessage(messages[i]) =>
                \A k \in 1..Len(messages[i].tool_calls) :
                    Cardinality({j \in ResultsAfter(messages, i) :
                        messages[j].tool_call_id = messages[i].tool_calls[k].id}) = 1

\* the last task reported an error on all its invocations, the others succeeded
LastCallExhausted ==
    /\ pc = "AwaitingTools"
    /\ tasks # << >>
    /\ \A k \in 1..(Len(tasks) - 1) :
          tasks[k].pc = "done" /\ ~Last(tasks[k].log).isError
    /\ Len(Last(tasks).log) = max_try
    /\ \A n \in 1..max_try : Last(tasks).log[n].isError

Texts(content) == [i \in 1..Len(content) |-> content[i].text]

\* C5: K tool calls of which the first K-1 succeed and the K-th reports an error on
\* every permitted invocation give K tool-result messages, the first K-1 with their
\* success payloads and the K-th with the error marker; the round trip goes on to
\* the next model request
C5_ErrorIsEmbedded ==
    /\ [][LastCallExhausted =>
            /\ Last(tasks).pc = "done"
            /\ (pc' # pc) =>
                 /\ pc' = "AwaitingModel"
                 /\ Len(messages') = Len(messages) + Len(tasks)
                 /\ IsPrefix(messages, messages')
                 /\ \A k \in 1..Len(tasks) :
                      LET m == messages'[Len(messages) + k]
                      IN /\ m.role = "tool"
                         /\ m.tool_call_id = tasks[k].call.id
                         /\ m.content.results =
                              IF k < Len(tasks)
                              THEN Texts(Last(tasks[k].log).content)
                              ELSE <<ErrorMarker>>]_vars
    /\ [](pc = "AwaitingModel" => ENABLED RequestModel)

\* two results were appended, a payload and the error marker, and the next request
\* has been made
C5_Witness ==
    /\ pc = "Streaming"
    /\ requests = 2
    /\ Len(messages) = Len(callStart) + 3
    /\ messages[Len(messages) - 1].content.results = << <<"p">> >>
    /\ Last(messages).content.results = <<ErrorMarker>>

IsErrorPrefix(log, n) == \A i \in 1..n : log[i].isError /\ ~log[i].raises

\* C6: after j invocations that reported an error the collaborator is invoked once
\* more while j < 5 and never again once j = 5; a call that ends with a success has
\* made j + 1 invocations and its result holds that success payload and no error
\* marker; a call that ends with an error has made exactly 5 invocations
C6_RetryCap ==
    \A k \in DOMAIN tasks :
        LET task == tasks[k]
            n == Len(task.log)
        IN /\ Invocations(task) <= max_try
           /\ IsErrorPrefix(task.log, n - 1)
           /\ (task.pc = "calling") => (IsErrorPrefix(task.log, n) /\ Invocations(task) = n + 1)
           /\ (task.pc = "done" /\ ~Last(task.log).isError) =>
                 /\ Invocations(task) = n
                 /\ task.out[1].content.results = Texts(Last(task.log).content)
                 /\ \A i \in DOMAIN task.out[1].content.results :
                       task.out[1].content.results[i] # ErrorMarker
           /\ (task.pc = "done" /\ Last(task.log).isError) =>
                 /\ Invocations(task) = max_try
                 /\ task.out[1].content.results = <<ErrorMarker>>
           /\ (task.pc \in {"calling", "created"}) => task.out = << >>

\* two errors, then a success: three invocations and the success payload
C6_Witness ==
    \E k \in DOMAIN tasks :
        /\ tasks[k].pc = "done"
        /\ Len(tasks[k].log) = 3
        /\ tasks[k].log[1].isError
        /\ tasks[k].log[2].isError
        /\ tasks[k].out[1].content.results = << <<"p">> >>

\* the list ends with the results of its last assistant tool-call message
EndsWithAllResults(list) ==
    LET i == PrecedingAssistant(list, Len(list) + 1)
    IN /\ i > 0
       /\ IsToolCallMessage(list[i])
       /\ Len(list) = i + Len(list[i].tool_calls)
       /\ \A k \in 1..Len(list[i].tool_calls) :
             /\ list[i + k].role = "tool"
             /\ list[i + k].tool_call_id = list[i].tool_calls[k].id

\* C7: when gather starts to wait, every tool call of the round trip has its task
\* and none has run; while they run no request is made; the next request is made
\* only when every call's result message has been appended
C7_JoinBeforeNextRequest ==
    /\ [][(pc = "Streaming" /\ pc' = "AwaitingTools") =>
            /\ Len(tasks') = Len(Last(messages').tool_calls)
            /\ \A k \in DOMAIN tasks' :
                  /\ tasks'[k].pc = "created"
                  /\ tasks'[k].call = Last(messages').tool_calls[k]]_vars
    /\ [][(pc = "AwaitingTools") => (requests' = requests /\ Len(tasks') \in {0, Len(tasks)})]_vars
    /\ [][(requests' = requests + 1 /\ requests >= 1) =>
            (tasks = << >> /\ EndsWithAllResults(messages))]_vars

\* two tool calls in flight at once, one of them on a retry, the other not
C7_Witness ==
    /\ pc = "AwaitingTools"
    /\ Len(tasks) = 2
    /\ tasks[1].pc = "calling"
    /\ tasks[2].pc = "calling"
    /\ tasks[1].t = 0
    /\ tasks[2].t = 1

\* the next request after a round trip with two tool calls
C7_WitnessNext ==
    /\ pc = "Streaming"
    /\ requests = 2
    /\ Len(messages) = Len(callStart) + 3

\* C8 (as amended): Awaiting-Model ends in Done exactly on stop, in Awaiting-Tools
\* exactly on tool_calls and in Fatal on any other reason or none, unless the stream
\* itself raises; Awaiting-Tools goes back to Awaiting-Model with the results
\* appended when every call gave a result, and the call raises with nothing
\* appended when a call raised; after Done, Fatal and a raise nothing follows
C8_Machine ==
    [][/\ (pc = "AwaitingModel") => (pc' = "Streaming" /\ requests' = requests + 1)
       /\ (pc = "Streaming" /\ pc' # "Streaming") =>
             \/ pc' = "Raised" /\ messages' = messages
             \/ pc' = (IF finish_reason = "stop" THEN "Done"
                       ELSE IF finish_reason = "tool_calls" THEN "AwaitingTools"
                       ELSE "Fatal")
       /\ (pc = "AwaitingTools" /\ pc' # "AwaitingTools") =>
             \/ /\ pc' = "AwaitingModel"
                /\ \A k \in DOMAIN tasks : tasks[k].pc = "done"
                /\ Len(messages') = Len(messages) + Len(tasks)
             \/ /\ pc' = "Raised"
                /\ \E k \in DOMAIN tasks : tasks[k].pc = "raised"
                /\ messages' = messages
       /\ (pc \in {"Done", "Fatal", "Raised"}) =>
             (pc' = pc /\ requests' = requests /\ messages' = messages /\ tasks' = tasks)
      ]_vars

\* a call that went through Awaiting-Tools and back and reached Done
C8_Witness ==
    /\ pc = "Done"
    /\ requests = 2
    /\ \E i \in 1..Len(messages) : messages[i].role = "tool"

\* a call that left Awaiting-Tools by raising
C8_WitnessRaise ==
    /\ pc = "Raised"
    /\ failure.type = "JSONDecodeError"
    /\ IsToolCallMessage(Last(messages))

\* C8 (as claimed): the same machine, in which Awaiting-Tools always goes back to
\* Awaiting-Model
C8_AlwaysBackToModel ==
    [][/\ (pc = "AwaitingModel") => (pc' = "Streaming")
       /\ (pc = "Streaming" /\ pc' \notin {"Streaming", "Raised"}) =>
             pc' = (IF finish_reason = "stop" THEN "Done"
                    ELSE IF finish_reason = "tool_calls" THEN "AwaitingTools"
                    ELSE "Fatal")
       /\ (pc = "AwaitingTools" /\ pc' # "AwaitingTools") =>
             (pc' = "AwaitingModel" /\ Len(messages') = Len(messages) + Len(tasks))
       /\ (pc \in {"Done", "Fatal"}) =>
             (pc' = pc /\ requests' = requests /\ tasks' = tasks)
      ]_vars

\* C9: a call with a list that is already Done (it ends with a final assistant
\* text, no tool call is pending) leaves the list as it is
C9_ResubmitUnchanged ==
    (IsDone(callStart) /\ pc \in {"Done", "Fatal", "Raised"}) => messages = callStart


(***************************************************************************)
(* The structured response extractor (utils.message_to_json) on token     *)
(* texts.  The token "<fence>" stands for the three backquotes.  The      *)
(* fence followed by json opens a block; the lazy group ends at the next  *)
(* fence, and the opening token begins with a fence too.                  *)
(***************************************************************************)
FenceJson == "<fence>json"

Fence == "<fence>"

Space == " "

ExitMark == "<<EXIT>>"

\* the positions of message at which a fence occurs
FencePositions(message) == {i \in 1..Len(message) : message[i] \in {Fence, FenceJson}}

RECURSIVE LStrip(_)
LStrip(text) ==
    IF text # << >> /\ Head(text) = Space THEN LStrip(Tail(text)) ELSE text

RECURSIVE RStrip(_)
RStrip(text) ==
    IF text # << >> /\ Last(text) = Space
    THEN RStrip(SubSeq(text, 1, Len(text) - 1))
    ELSE text

\* str.strip()
Strip(text) == LStrip(RStrip(text))

\* the JSON texts of the model: an object is "{", its members, "}"
IsJsonObject(text) ==
    /\ Len(text) >= 2
    /\ Head(text) = "{"
    /\ Last(text) = "}"
    /\ \A i \in 2..(Len(text) - 1) : text[i] \notin {"{", "}", Fence, FenceJson, Space}

\* json.loads on an object text: its members in their order (<< >> is the
\* empty dict)
JsonLoads(text) == SubSeq(text, 2, Len(text) - 1)

\* json.dumps of a dict
JsonDumps(value) == <<"{">> \o value \o <<"}">>

\* mutant: the pattern is greedy, the block ends at the last fence of the message
message_to_jsonGreedy(message) ==
    LET opens == {i \in 1..Len(message) :
                    /\ message[i] = FenceJson
                    /\ \E j \in FencePositions(message) : j > i}
    IN IF opens = {}
       THEN << >>
       ELSE LET i == CHOOSE x \in opens : \A y \in opens : x <= y
                j == CHOOSE x \in FencePositions(message) :
                        \A y \in FencePositions(message) : y <= x
                json_str == Strip(SubSeq(message, i + 1, j - 1))
            IN IF IsJsonObject(json_str) THEN JsonLoads(json_str) ELSE << >>

\* re.search(pattern, message): the first opening fence that has a fence after
\* it, and the text between the two
message_to_json(message) ==
    LET opens == {i \in 1..Len(message) :
                    /\ message[i] = FenceJson
                    /\ \E j \in FencePositions(message) : j > i}
    IN IF opens = {}
       THEN << >>
       ELSE LET i == CHOOSE x \in opens : \A y \in opens : x <= y
                j == CHOOSE x \in FencePositions(message) :
                        x > i /\ \A y \in FencePositions(message) : y > i => x <= y
                json_str == Strip(SubSeq(message, i + 1, j - 1))
            IN IF IsJsonObject(json_str) THEN JsonLoads(json_str) ELSE << >>

(***************************************************************************)
(* The memory store: a chromadb collection and the snapshot files.        *)
(***************************************************************************)
Digits == {ToString(d) : d \in 0..9}

RECURSIVE Str(_)
\* str(n): the decimal digits of n
Str(n) ==
    IF n < 0 THEN <<"-">> \o Str(0 - n)
    ELSE IF n < 10 THEN <<ToString(n)>>
    ELSE Str(n \div 10) \o <<ToString(n % 10)>>

\* str.isdigit()
IsDigit(text) == text # << >> /\ \A i \in 1..Len(text) : text[i] \in Digits

RECURSIVE ParseInt(_)
\* int(text) of a text of digits
ParseInt(text) ==
    IF text = << >> THEN 0
    ELSE ParseInt(SubSeq(text, 1, Len(text) - 1)) * 10
         + (CHOOSE d \in 0..9 : ToString(d) = Last(text))

RECURSIVE Add(_, _, _)
\* collection.add(ids, documents): an entry whose id is in the collection already
\* is not added again
Add(coll, ids, documents) ==
    IF ids = << >>
    THEN coll
    ELSE LET present == \E i \in 1..Len(coll.ids) : coll.ids[i] = Head(ids)
             next == IF present
                     THEN coll
                     ELSE [ids |-> Append(coll.ids, Head(ids)),
                           documents |-> Append(coll.documents, Head(documents))]
         IN Add(next, Tail(ids), Tail(documents))

\* the ids add_memory_entries gives to entries
NewIds(counter, entries) == [i \in 1..Len(entries) |-> Str(counter + i - 1)]

\* json.dumps(collection.get()): the ids and documents, and the keys get() adds
Dump(coll) ==
    [ids |-> coll.ids, documents |-> coll.documents, embeddings |-> "null",
     metadatas |-> [i \in 1..Len(coll.ids) |-> "null"]]

\* f"{counter}.json"
FileName(counter) == Str(counter) \o <<".json">>

\* the file <stem>.json of a snapshot directory is written (again) with the
\* collection's dump
WriteSnapshot(dir, stem, coll) == (FileName(stem) :> Dump(coll)) @@ dir

\* f[:-5] of a file name that ends with ".json"
Stem(f) == SubSeq(f, 1, Len(f) - 1)

\* the files of a snapshot directory that end with ".json" and have a stem of
\* digits
JsonFiles(dir) == {f \in DOMAIN dir : Last(f) = ".json" /\ IsDigit(Stem(f))}

\* the order of texts made of digits, as texts: "9" comes after "10"
RECURSIVE TextLeq(_, _)
TextLeq(a, b) ==
    IF a = << >> THEN TRUE
    ELSE IF b = << >> THEN FALSE
    ELSE IF Head(a) = Head(b) THEN TextLeq(Tail(a), Tail(b))
    ELSE ParseInt(<<Head(a)>>) < ParseInt(<<Head(b)>>)

\* mutant: the largest file name is taken, not the largest number
MaxIdxOfNames(json_files) ==
    LET stems == {Stem(f) : f \in json_files}
    IN ParseInt(CHOOSE m \in stems : \A n \in stems : TextLeq(n, m))

\* max([int(f[:-5]) for f in json_files])
MaxIdx(json_files) ==
    LET stems == {ParseInt(Stem(f)) : f \in json_files}
    IN CHOOSE m \in stems : \A n \in stems : n <= m

(***************************************************************************)
(* The agent task loops: FORMAT_ANALYST.analyze_from_specification,       *)
(* analyze_from_inputs and extract_sequence_from_inputs,                  *)
(* SEQUENCE_PLANNER.plan_sequence, FIELD_DESIGNER.design_field and        *)
(* DEVELOPER.develop_new_seed.                                             *)
(* apc is "called" when the method is entered, "attempt" at the top of    *)
(* the body of "for t in range(max_tries)", "awaiting" while              *)
(* process_messages_streaming runs, "done" when the method has returned,  *)
(* "raised" when an exception has left it.                                 *)
(* Between the return of process_messages_streaming and the next call     *)
(* the method does not await, so that stretch is one step.                *)
(***************************************************************************)
Agents ==
    {"analyze_from_specification", "analyze_from_inputs",
     "extract_sequence_from_inputs", "plan_sequence", "design_field",
     "develop_new_seed"}

\* the collection the method's add_memory_entries commits to
Collection(a) ==
    CASE a = "analyze_from_specification" -> "format_spec_DB"
      [] a = "analyze_from_inputs" -> "format_spec_DB"
      [] a = "extract_sequence_from_inputs" -> "sequence_DB"
      [] a = "plan_sequence" -> "sequence_DB"
      [] a = "design_field" -> "component_DB"
      [] a = "develop_new_seed" -> "sequence_DB"

\* the counter it uses
Counter(a) ==
    CASE a = "analyze_from_specification" -> "FORMAT_ANALYST.id_counter"
      [] a = "analyze_from_inputs" -> "FORMAT_ANALYST.id_counter"
      [] a = "extract_sequence_from_inputs" -> "FORMAT_ANALYST.id_counter_sequence"
      [] a = "plan_sequence" -> "SEQUENCE_PLANNER.id_counter"
      [] a = "design_field" -> "FIELD_DESIGNER.id_counter"
      [] a = "develop_new_seed" -> "DEVELOPER.id_counter"

\* the methods that loop over type_list around the attempts
PerType(a) == a \in {"design_field", "analyze_from_specification"}

\* the method that loops over the files of the seed directory
PerFile(a) == a = "extract_sequence_from_inputs"

\* the list the outer loop of the running method goes through
Items ==
    IF PerType(agent) THEN type_list
    ELSE IF PerFile(agent) THEN files
    ELSE << >>

\* type_list as the earlier stage left it: 0..MaxTypes types
TypeLists == {[i \in 1..n |-> <<"T", i>>] : n \in 0..MaxTypes}

\* what glob finds in the seed directory: 0..MaxFiles files
FileLists == {[i \in 1..n |-> <<"file", ToString(i)>>] : n \in 0..MaxFiles}

\* mutant: from the second attempt on, the conversation carries a note on the
\* attempts before it
AttemptMessagesReflecting(a) ==
    << [role |-> "system", content |-> <<"system prompt", a>>],
       [role |-> "user", content |-> <<"user prompt", a>>] >>
    \o (IF t > 0
        THEN << [role |-> "user", content |-> <<"previous attempts", a>>] >>
        ELSE << >>)

\* the messages an attempt builds: one system message and one user message
AttemptMessages(a) ==
    << [role |-> "system", content |-> <<"system prompt", a>>],
       [role |-> "user", content |-> <<"user prompt", a>>] >>

\* the member "types" of a reply that names the types T1..Tn
TypesToken(n) == "types:" \o ToString(n)

\* pieces of the replies of the reasoning service: a block with an object, a
\* block with the empty object, a block that does not parse, no block
ValidBlock == <<FenceJson, Space, "{", "k:v", "}", Space, Fence>>

EmptyObjectBlock == <<FenceJson, "{", "}", Fence>>

BadBlock == <<FenceJson, "{", Fence>>

TextOnly == <<"text">>

TypesBlock == <<FenceJson, "{", TypesToken(MaxTypes), "}", Fence>>

SeedBlock == <<FenceJson, "{", "status:Success", "seed_name:s1", "}", Fence>>

FailedBlock == <<FenceJson, "{", "status:Failed", "}", Fence>>

\* the pieces the service sends to each method
Replies(a) ==
    CASE a = "analyze_from_specification" -> {ValidBlock, TextOnly, TypesBlock}
      [] a = "analyze_from_inputs" -> {ValidBlock, TextOnly, BadBlock}
      [] a = "extract_sequence_from_inputs" -> {ValidBlock, TextOnly, BadBlock}
      [] a = "plan_sequence" -> {ValidBlock, TextOnly, BadBlock, EmptyObjectBlock}
      [] a = "design_field" -> {ValidBlock, TextOnly, BadBlock, <<ExitMark>>}
      [] a = "develop_new_seed" -> {SeedBlock, FailedBlock, TextOnly}

\* the replies of the reasoning service in a task: pieces of text with and
\* without a fenced block, and the end of the stream
ReplyFragments == UNION {Replies(a) : a \in Agents}

TaskStreamEvents ==
    {Event(c, << >>, "") : c \in ReplyFragments}
    \cup {Event(<< >>, << >>, r) : r \in {"stop", "length"}}

\* "in" on texts and lists: the mark is one of the tokens
Contains(text, mark) == \E i \in 1..Len(text) : text[i] = mark

\* [format['name'] for format in response_json.get('types', [])]
Types(response_json) ==
    LET ns == {n \in 1..MaxTypes : Contains(response_json, TypesToken(n))}
    IN IF ns = {}
       THEN << >>
       ELSE [i \in 1..(CHOOSE n \in ns : TRUE) |-> <<"T", i>>]

\* response_json.get("status") == "Success" and "seed_name" in response_json
ReportsSeed(response_json) ==
    /\ Contains(response_json, "status:Success")
    /\ Contains(response_json, "seed_name:s1")

\* response_json["seed_name"]
SeedName(response_json) == <<"seed", "s1">>

\* the variables a method does not change: its arguments and the pipeline's
taskArgs == <<agent, max_tries, files, sequence_id, stage, loaded, input, output>>

\* the collections, the counters, the snapshot files and the history of add
memory == <<DB, id_counter, snapshots, addLog>>

\* the history of the attempts is kept for a method that is called on its own
Logged(log) == IF stage = 0 THEN log ELSE << >>

\* the method returns value; log is the history of the task's attempts
Return(value, log) ==
    /\ apc' = "done"
    /\ result' = value
    /\ attemptLog' = Logged(log)
    /\ UNCHANGED <<t, typeIdx>>

\* the outer loop goes to its next item, or the method returns "Success"
NextType(log) ==
    IF typeIdx >= 1 /\ typeIdx < Len(Items)
    THEN /\ apc' = "attempt"
         /\ typeIdx' = typeIdx + 1
         /\ t' = 0
         /\ attemptLog' = << >>
         /\ result' = result
    ELSE Return("Success", log)

\* break: the attempt loop is left
Break(log) == NextType(log)

\* continue, or the end of the loop body: the next attempt if range(max_tries)
\* has one, else the attempt loop is left
Continue(log) ==
    IF t + 1 < max_tries
    THEN /\ apc' = "attempt"
         /\ t' = t + 1
         /\ attemptLog' = Logged(log)
         /\ UNCHANGED <<typeIdx, result>>
    ELSE NextType(log)

\* mutant: the snapshot is taken before the entries are added
CommitSnapshotFirst(entries) ==
    LET c == Collection(agent)
        n == Counter(agent)
        ids == NewIds(id_counter[n], entries)
        coll == Add(DB[c], ids, entries)
        counter == id_counter[n] + Len(entries)
    IN /\ DB' = [DB EXCEPT ![c] = coll]
       /\ id_counter' = [id_counter EXCEPT ![n] = counter]
       /\ addLog' = [addLog EXCEPT ![c] = @ \o ids]
       /\ snapshots' = [snapshots EXCEPT ![c] = WriteSnapshot(@, counter, DB[c])]

\* add_memory_entries(entries) of the running agent, then the snapshot file
\* named by the counter
Commit(entries) ==
    LET c == Collection(agent)
        n == Counter(agent)
        ids == NewIds(id_counter[n], entries)
        coll == Add(DB[c], ids, entries)
        counter == id_counter[n] + Len(entries)
    IN /\ DB' = [DB EXCEPT ![c] = coll]
       /\ id_counter' = [id_counter EXCEPT ![n] = counter]
       /\ addLog' = [addLog EXCEPT ![c] = @ \o ids]
       /\ snapshots' = [snapshots EXCEPT ![c] = WriteSnapshot(@, counter, coll)]

\* the method is entered
CallAgent ==
    /\ apc = "called"
    /\ IF max_tries = 0
       THEN Return("Success", attemptLog)
       ELSE IF agent = "analyze_from_specification"
       THEN /\ apc' = "attempt"
            /\ typeIdx' = 0
            /\ UNCHANGED <<t, result, attemptLog>>
       ELSE IF PerType(agent) \/ PerFile(agent)
       THEN IF Items = << >>
            THEN Return("Success", attemptLog)
            ELSE /\ apc' = "attempt"
                 /\ typeIdx' = 1
                 /\ UNCHANGED <<t, result, attemptLog>>
       ELSE /\ apc' = "attempt"
            /\ typeIdx' = 0
            /\ UNCHANGED <<t, result, attemptLog>>
    /\ UNCHANGED <<taskArgs, memory, type_list, seed_sequence_pairs, escaped>>
    /\ UNCHANGED clientVars

\* sequence_DB.get(ids=[str(sequence_id)])['documents'] is empty
SequenceMissing == ~Contains(DB["sequence_DB"].ids, Str(sequence_id))

\* the document of the collection with this id
DocumentOf(coll, id) == coll.documents[CHOOSE i \in 1..Len(coll.ids) : coll.ids[i] = id]

\* the attempt builds its messages and calls process_messages_streaming; the
\* Developer reads its sequence first, and [0] of an empty list raises
StartExchange ==
    /\ apc = "attempt"
    /\ IF agent = "develop_new_seed" /\ SequenceMissing
       THEN /\ apc' = "raised"
            /\ escaped' = "IndexError"
            /\ UNCHANGED clientVars
       ELSE /\ apc' = "awaiting"
            /\ escaped' = escaped
            /\ messages' = AttemptMessages(agent)
            /\ pc' = "AwaitingModel"
            /\ budget' = (IF stage = 0 THEN TaskEvents ELSE PipeEvents)
            /\ requests' = 0
            /\ roundStart' = messages'
            /\ callStart' = messages'
            /\ failure' = << >>
            /\ UNCHANGED <<assistant_text_parts, tool_calls_acc, finish_reason, tasks,
                           orphans, contentLog, deltaLog, doneLog>>
    /\ UNCHANGED <<taskArgs, memory, t, type_list, typeIdx, result, attemptLog,
                   seed_sequence_pairs>>

\* the call of process_messages_streaming is over: the attempt keeps nothing of
\* the message list but the response it has read, and the exception is logged
ExchangeOver ==
    /\ messages' = << >>
    /\ budget' = 0
    /\ requests' = 0
    /\ roundStart' = << >>
    /\ callStart' = << >>
    /\ UNCHANGED <<assistant_text_parts, tool_calls_acc, finish_reason, tasks, orphans,
                   contentLog, deltaLog, failure, doneLog>>

\* mutant: an attempt that raised is not counted
ExchangeRaisesUncounted ==
    /\ apc = "awaiting"
    /\ pc \in {"Fatal", "Raised"}
    /\ pc' = "Idle"
    /\ apc' = "attempt"
    /\ attemptLog' = Append(attemptLog, "raised")
    /\ UNCHANGED <<t, typeIdx, result>>
    /\ UNCHANGED <<taskArgs, memory, type_list, seed_sequence_pairs, escaped>>
    /\ ExchangeOver

\* mutant: an exchange that raised ends the task at once
ExchangeRaisesGivesUp ==
    /\ apc = "awaiting"
    /\ pc \in {"Fatal", "Raised"}
    /\ pc' = "Idle"
    /\ Return("Failed", Append(attemptLog, "raised"))
    /\ UNCHANGED <<taskArgs, memory, type_list, seed_sequence_pairs, escaped>>
    /\ ExchangeOver

\* mutant: a failure on the last attempt of an item gives the item up and the
\* method goes to its next item
ExchangeRaisesSkipsItem ==
    /\ apc = "awaiting"
    /\ pc \in {"Fatal", "Raised"}
    /\ pc' = "Idle"
    /\ IF t = max_tries - 1
       THEN Break(Append(attemptLog, "raised"))
       ELSE Continue(Append(attemptLog, "raised"))
    /\ UNCHANGED <<taskArgs, memory, type_list, seed_sequence_pairs, escaped>>
    /\ ExchangeOver

\* "except Exception": process_messages_streaming raised
ExchangeRaises ==
    /\ apc = "awaiting"
    /\ pc \in {"Fatal", "Raised"}
    /\ pc' = "Idle"
    /\ IF t = max_tries - 1
       THEN Return("Failed", Append(attemptLog, "raised"))
       ELSE Continue(Append(attemptLog, "raised"))
    /\ UNCHANGED <<taskArgs, memory, type_list, seed_sequence_pairs, escaped>>
    /\ ExchangeOver

\* what the extractor gave: the empty dict or a value
Outcome(response_json) == IF response_json = << >> THEN "empty" ELSE "valid"

\* mutant: a reply that names no type is an attempt that failed
EnumerateTypesRetries(response) ==
    LET response_json == message_to_json(response)
        log == Append(attemptLog, Outcome(response_json))
        list == type_list \o Types(response_json)
    IN /\ type_list' = list
       /\ IF Types(response_json) = << >>
          THEN IF t = max_tries - 1 THEN Return("Failed", log) ELSE Continue(log)
          ELSE /\ apc' = "attempt"
               /\ typeIdx' = 1
               /\ t' = 0
               /\ attemptLog' = << >>
               /\ result' = result
       /\ UNCHANGED <<memory, seed_sequence_pairs>>

\* analyze_from_specification, first loop: the names of the types of the reply
\* are appended to type_list and the loop is left, whatever the reply was; the
\* loop over type_list follows
EnumerateTypes(response) ==
    LET response_json == message_to_json(response)
        log == Append(attemptLog, Outcome(response_json))
        list == type_list \o Types(response_json)
    IN /\ type_list' = list
       /\ IF list = << >>
          THEN Return("Success", log)
          ELSE /\ apc' = "attempt"
               /\ typeIdx' = 1
               /\ t' = 0
               /\ attemptLog' = << >>
               /\ result' = result
       /\ UNCHANGED <<memory, seed_sequence_pairs>>

\* analyze_from_specification (per type), analyze_from_inputs,
\* extract_sequence_from_inputs and plan_sequence after the exchange:
\* message_to_json does not raise, so whatever it gave is committed and the
\* snapshot is written; the last attempt returns "Failed", any other leaves the
\* attempt loop
CommitAlways(response) ==
    LET response_json == message_to_json(response)
        log == Append(attemptLog, Outcome(response_json))
    IN /\ Commit(<<JsonDumps(response_json)>>)
       /\ seed_sequence_pairs' =
            IF PerFile(agent)
            THEN (files[typeIdx] :> response_json) @@ seed_sequence_pairs
            ELSE seed_sequence_pairs
       /\ IF t = max_tries - 1 THEN Return("Failed", log) ELSE Break(log)
       /\ UNCHANGED type_list

\* mutant: the attempt loop of a type is left at the first commit
CommitNonEmptyOnce(response) ==
    LET response_json == message_to_json(response)
        log == Append(attemptLog, Outcome(response_json))
    IN /\ IF response_json = << >>
          THEN /\ UNCHANGED memory
               /\ IF t = max_tries - 1 THEN Break(log) ELSE Continue(log)
          ELSE /\ Commit(<<JsonDumps(response_json)>>)
               /\ Break(log)
       /\ UNCHANGED <<type_list, seed_sequence_pairs>>

\* design_field after the exchange: the empty dict is not committed; after a
\* commit the loop goes on unless the response has the exit mark or this was the
\* last attempt
CommitNonEmpty(response) ==
    LET response_json == message_to_json(response)
        log == Append(attemptLog, Outcome(response_json))
    IN /\ IF response_json = << >>
          THEN /\ UNCHANGED memory
               /\ IF t = max_tries - 1 THEN Break(log) ELSE Continue(log)
          ELSE /\ Commit(<<JsonDumps(response_json)>>)
               /\ IF Contains(response, ExitMark) THEN Break(log)
                  ELSE IF t = max_tries - 1 THEN Break(log)
                  ELSE Continue(log)
       /\ UNCHANGED <<type_list, seed_sequence_pairs>>

\* develop_new_seed after the exchange: a reply that reports a seed is checked
\* against the seed directory (exists: os.path.exists of the named file); any
\* other reply is retried, and on the last attempt the loop is left
ValidateSeed(response) ==
    LET response_json == message_to_json(response)
        sequence_raw == DocumentOf(DB["sequence_DB"], Str(sequence_id))
        sequence == IF IsJsonObject(sequence_raw) THEN JsonLoads(sequence_raw)
                    ELSE sequence_raw
        log(outcome) == Append(attemptLog, outcome)
    IN /\ IF ReportsSeed(response_json)
          THEN \E exists \in BOOLEAN :
                 IF exists
                 THEN /\ seed_sequence_pairs' =
                           (SeedName(response_json) :> sequence) @@ seed_sequence_pairs
                      /\ Break(log("valid"))
                 ELSE /\ UNCHANGED seed_sequence_pairs
                      /\ IF t = max_tries - 1
                         THEN Return("Failed", log("missing"))
                         ELSE Continue(log("missing"))
          ELSE /\ UNCHANGED seed_sequence_pairs
               /\ LET outcome == IF response_json = << >> THEN "empty" ELSE "invalid"
                  IN IF t = max_tries - 1
                     THEN Break(log(outcome))
                     ELSE Continue(log(outcome))
       /\ UNCHANGED <<memory, type_list>>

\* process_messages_streaming returned: response = messages[-1]['content']
ExchangeReturns ==
    /\ apc = "awaiting"
    /\ pc = "Done"
    /\ pc' = "Idle"
    /\ LET response == Last(messages).content
       IN IF agent = "analyze_from_specification" /\ typeIdx = 0
          THEN EnumerateTypes(response)
          ELSE IF agent = "design_field"
          THEN CommitNonEmpty(response)
          ELSE IF agent = "develop_new_seed"
          THEN ValidateSeed(response)
          ELSE CommitAlways(response)
    /\ UNCHANGED <<taskArgs, escaped>>
    /\ ExchangeOver

\* no call of process_messages_streaming is running
ClientIdle ==
    /\ messages = << >>
    /\ pc = "Idle"
    /\ assistant_text_parts = << >>
    /\ tool_calls_acc = << >>
    /\ finish_reason = ""
    /\ tasks = << >>
    /\ orphans = << >>
    /\ budget = 0
    /\ requests = 0
    /\ contentLog = << >>
    /\ deltaLog = << >>
    /\ doneLog = << >>
    /\ roundStart = << >>
    /\ callStart = << >>
    /\ failure = << >>

\* a collection after n commits of one document each
Committed(n) ==
    [ids |-> [i \in 1..n |-> Str(i - 1)],
     documents |-> [i \in 1..n |-> JsonDumps(<<"k:v">>)]]

\* the snapshot directory of that collection: one file per commit, named by the
\* counter after the commit
SnapshotsOf(n) ==
    [f \in {FileName(k) : k \in 1..n} |->
        Dump(Committed(CHOOSE k \in 1..n : FileName(k) = f))]

\* json.load of the file of a snapshot directory with the largest integer stem
LatestSnapshot(dir) == dir[FileName(MaxIdx(JsonFiles(dir)))]

\* mutant: the planner is built with the default id_counter
PlannerSeedZero(coll) == 0

\* id_counter=len(sequence_DB.get()["ids"]) of the SEQUENCE_PLANNER
PlannerSeed(coll) == Len(coll.ids)

\* sequence_id=len(sequence_DB.get()["ids"])-1 of develop_new_seed
SequenceId(coll) == Len(coll.ids) - 1

\* sequence_DB with the n sequences extract_sequence_from_inputs has committed,
\* its counter and its snapshot files
SequencesExtracted(n) ==
    /\ DB = [c \in CollectionNames |->
               IF c = "sequence_DB" THEN Committed(n) ELSE EmptyCollection]
    /\ id_counter = [c \in CounterNames |->
               IF c = "FORMAT_ANALYST.id_counter_sequence" THEN n
               ELSE IF c = "SEQUENCE_PLANNER.id_counter" THEN PlannerSeed(Committed(n))
               ELSE 0]
    /\ snapshots = [c \in CollectionNames |->
               IF c = "sequence_DB" THEN SnapshotsOf(n) ELSE << >>]
    /\ addLog = [c \in CollectionNames |->
               IF c = "sequence_DB" THEN Committed(n).ids ELSE << >>]
    /\ sequence_id = SequenceId(Committed(n))

\* one agent method is called: the Field Designer with the type_list an earlier
\* stage left, the Sequence Planner and the Developer with the sequence_DB an
\* earlier stage left, the others on fresh collections
TaskInit ==
    /\ ClientIdle
    /\ agent \in Agents
    /\ apc = "called"
    /\ max_tries \in 1..MaxTries
    /\ t = 0
    /\ type_list \in (IF agent = "design_field" THEN TypeLists ELSE {<< >>})
    /\ files \in (IF PerFile(agent) THEN FileLists ELSE {<< >>})
    /\ typeIdx = 0
    /\ result = ""
    /\ \E n \in (IF agent \in {"plan_sequence", "develop_new_seed"} THEN 0..1 ELSE {0}) :
          SequencesExtracted(n)
    /\ seed_sequence_pairs = << >>
    /\ escaped = ""
    /\ stage = 0
    /\ loaded = [c \in CollectionNames |-> EmptyCollection]
    /\ NoExtraction
    /\ attemptLog = << >>

TaskNext ==
    \/ CallAgent
    \/ StartExchange
    \/ RequestModel
    \/ \E ev \in TaskStreamEvents :
          ev.content \in Replies(agent) \cup {<< >>} /\ StreamEvent(ev)
    \/ StreamFails
    \/ FinishStop
    \/ FinishFatal
    \/ ExchangeReturns
    \/ ExchangeRaises

SpecTask == TaskInit /\ [][TaskNext]_vars

(***************************************************************************)
(* plan_sequence with tools: the exchanges of the attempts dispatch tool  *)
(* calls, a task that gather did not wait for runs on while the method    *)
(* goes to its next attempt.                                              *)
(***************************************************************************)
DispatchNext ==
    LET events == {Event(<< >>, <<HeaderDelta(0), HeaderDelta(MaxIndex)>>, ""),
                   Event(ValidBlock, << >>, ""),
                   Event(<< >>, << >>, "stop"),
                   Event(<< >>, << >>, "tool_calls")}
    IN \/ CallAgent
       \/ StartExchange
       \/ RequestModel
       \/ \E ev \in events : StreamEvent(ev)
       \/ FinishStop
       \/ FinishToolCalls
       \/ FinishFatal
       \/ \E k \in 1..(MaxIndex + 1) : TaskStart(k)
       \/ \E k \in 1..(MaxIndex + 1), r \in CallToolResults : TaskReturn(k, r)
       \/ GatherReturn
       \/ \E k \in 1..(MaxIndex + 1) : GatherRaise(k)
       \/ \E k \in 1..(MaxIndex + 1), r \in CallToolResults : OrphanStep(k, r)
       \/ ExchangeReturns
       \/ ExchangeRaises

\* plan_sequence is called on the sequence_DB an earlier stage left
DispatchInit ==
    /\ TaskInit
    /\ agent = "plan_sequence"

SpecDispatch == DispatchInit /\ [][DispatchNext]_vars

(***************************************************************************)
(* MCPClient.stellafuzz: the six stages in program order on the four fresh  *)
(* collections, each agent built where the program builds it.               *)
(***************************************************************************)

\* the stages of stellafuzz in program order
StageOrder ==
    <<"analyze_from_specification", "analyze_from_inputs",
      "extract_sequence_from_inputs", "plan_sequence", "design_field",
      "develop_new_seed">>

\* max_tries of the Format Analyst's methods (the default of the signatures)
AnalystTries == 3

\* max_tries of plan_sequence
PlanTries == 3

\* max_tries of design_field
DesignTries == 5

\* max_tries of develop_new_seed
DevelopTries == 3

\* the max_tries stellafuzz gives to (or leaves to the default of) each method
StageTries(a) ==
    CASE a = "plan_sequence" -> PlanTries
      [] a = "design_field" -> DesignTries
      [] a = "develop_new_seed" -> DevelopTries
      [] OTHER -> AnalystTries

\* the pieces the service sends during a run of stellafuzz
PipeReplies(a) ==
    CASE a = "analyze_from_specification" -> {TypesBlock}
      [] a = "design_field" -> {ValidBlock, ValidBlock \o <<ExitMark>>}
      [] a = "develop_new_seed" -> {SeedBlock}
      [] OTHER -> {ValidBlock}

\* the events of such a stream: each carries a piece and the finish reason stop
PipeStreamEvents(a) == {Event(c, << >>, "stop") : c \in PipeReplies(a)}

\* the agent of the stage is built and its method is called: the counters of an
\* agent object start at 0, the Sequence Planner's at the size of sequence_DB
EnterStage(k) ==
    /\ stage' = k
    /\ agent' = StageOrder[k]
    /\ max_tries' = StageTries(StageOrder[k])
    /\ apc' = "called"
    /\ t' = 0
    /\ typeIdx' = 0
    /\ result' = ""
    /\ attemptLog' = << >>
    /\ id_counter' =
         IF StageOrder[k] = "plan_sequence"
         THEN [id_counter EXCEPT !["SEQUENCE_PLANNER.id_counter"] =
                                     PlannerSeed(DB["sequence_DB"])]
         ELSE id_counter
    /\ sequence_id' =
         IF StageOrder[k] = "develop_new_seed"
         THEN SequenceId(DB["sequence_DB"])
         ELSE sequence_id

\* a stage returned "Success" or "Failed": the result is printed and the next
\* stage starts
NextStage ==
    /\ stage \in 1..(Len(StageOrder) - 1)
    /\ apc = "done"
    /\ EnterStage(stage + 1)
    /\ UNCHANGED <<type_list, DB, snapshots, addLog, files, seed_sequence_pairs,
                   escaped, loaded,
                   input, output>>
    /\ UNCHANGED clientVars

\* the last stage returned: stellafuzz returns
PipelineEnd ==
    /\ stage = Len(StageOrder)
    /\ apc = "done"
    /\ stage' = stage + 1
    /\ apc' = "returned"
    /\ UNCHANGED <<agent, max_tries, t, type_list, typeIdx, result, DB, id_counter,
                   snapshots, attemptLog, files, seed_sequence_pairs, sequence_id,
                   escaped, addLog, loaded,
                   input, output>>
    /\ UNCHANGED clientVars

\* stellafuzz is called: fresh collections, type_list = [], no pairs, and the
\* Format Analyst built and called
PipelineInit ==
    /\ ClientIdle
    /\ stage = 1
    /\ agent = StageOrder[1]
    /\ max_tries = StageTries(StageOrder[1])
    /\ apc = "called"
    /\ t = 0
    /\ typeIdx = 0
    /\ result = ""
    /\ attemptLog = << >>
    /\ type_list = << >>
    /\ files \in FileLists
    /\ seed_sequence_pairs = << >>
    /\ EmptyMemory
    /\ sequence_id = 0
    /\ escaped = ""
    /\ loaded = [c \in CollectionNames |-> EmptyCollection]
    /\ NoExtraction

PipelineNext ==
    \/ CallAgent
    \/ StartExchange
    \/ RequestModel
    \/ \E ev \in PipeStreamEvents(agent) : StreamEvent(ev)
    \/ FinishStop
    \/ FinishFatal
    \/ ExchangeReturns
    \/ ExchangeRaises
    \/ NextStage
    \/ PipelineEnd

SpecPipeline == PipelineInit /\ [][PipelineNext]_vars

(***************************************************************************)
(* MCPClient.load_memory: stellafuzz taken up at a later stage, a collection *)
(* being filled from the snapshot directory an earlier run left.             *)
(***************************************************************************)

\* the names load_memory is called with: the four collections of stellafuzz,
\* of which coverage_DB has no snapshots
LoadNames == CollectionNames \cup {"coverage_DB"}

\* a directory that holds files but no snapshot: a ".json" file whose stem is
\* not a number and a numbered file that is not ".json"
NoSnapshotDir ==
    (<<"n", "o", "t", "e", "s", ".json">> :> Dump(EmptyCollection))
    @@ (<<"1", ".txt">> :> Dump(Committed(1)))

\* the directories load_memory is pointed at: the snapshots of 1..MaxLoaded
\* commits, the same beside other files, a directory without a snapshot, and
\* the empty directory
LoadDirs ==
    {SnapshotsOf(n) : n \in 1..MaxLoaded}
    \cup {SnapshotsOf(MaxLoaded) @@ NoSnapshotDir, NoSnapshotDir, << >>}

\* load_memory(db, db_name, path_to_db): an unsupported name or a directory
\* without a snapshot returns an error text; else the entries of the snapshot
\* with the largest number are added to the collection and None is returned;
\* one collection is loaded in a run
LoadMemory(db_name, dir) ==
    /\ apc = "loading"
    /\ \A c \in CollectionNames : loaded[c] = EmptyCollection
    /\ input' = <<db_name, dir>>
    /\ IF db_name \notin {"component_DB", "format_spec_DB", "sequence_DB"}
       THEN /\ output' = <<"[ERROR]", "Unsupported DB_name", db_name>>
            /\ UNCHANGED <<DB, loaded>>
       ELSE IF JsonFiles(dir) = {}
       THEN /\ output' = <<"[ERROR]", "No Data in", db_name>>
            /\ UNCHANGED <<DB, loaded>>
       ELSE LET data == LatestSnapshot(dir)
            IN /\ DB' = [DB EXCEPT ![db_name] = Add(@, data.ids, data.documents)]
               /\ loaded' = [loaded EXCEPT ![db_name] =
                                 [ids |-> data.ids, documents |-> data.documents]]
               /\ output' = <<"None">>
    /\ UNCHANGED <<agent, apc, max_tries, t, type_list, typeIdx, result, id_counter,
                   snapshots, attemptLog, files, seed_sequence_pairs, sequence_id,
                   escaped, addLog, stage>>
    /\ UNCHANGED clientVars

\* stellafuzz goes on at stage k: the agent is built and its method is called
Resume(k) ==
    /\ apc = "loading"
    /\ k \in 1..Len(StageOrder)
    /\ EnterStage(k)
    /\ type_list' \in (IF StageOrder[k] = "design_field" THEN TypeLists ELSE {<< >>})
    /\ files' \in (IF PerFile(StageOrder[k]) THEN FileLists ELSE {<< >>})
    /\ UNCHANGED <<DB, snapshots, addLog, seed_sequence_pairs, escaped, loaded,
                   input, output>>
    /\ UNCHANGED clientVars

\* a new process: fresh collections and empty snapshot directories
ReloadInit ==
    /\ ClientIdle
    /\ stage = 0
    /\ agent = ""
    /\ max_tries = 0
    /\ apc = "loading"
    /\ t = 0
    /\ typeIdx = 0
    /\ result = ""
    /\ attemptLog = << >>
    /\ type_list = << >>
    /\ files = << >>
    /\ seed_sequence_pairs = << >>
    /\ EmptyMemory
    /\ sequence_id = 0
    /\ escaped = ""
    /\ loaded = [c \in CollectionNames |-> EmptyCollection]
    /\ NoExtraction

ReloadNext ==
    \/ \E c \in LoadNames, dir \in LoadDirs : LoadMemory(c, dir)
    \/ \E k \in 1..Len(StageOrder) : Resume(k)
    \/ CallAgent
    \/ StartExchange
    \/ RequestModel
    \/ \E ev \in PipeStreamEvents(agent) : StreamEvent(ev)
    \/ FinishStop
    \/ FinishFatal
    \/ ExchangeReturns
    \/ ExchangeRaises

SpecReload == ReloadInit /\ [][ReloadNext]_vars

(***************************************************************************)
(* message_to_json called on its own: the argument is any text made of    *)
(* up to MaxPieces pieces, with and without fenced blocks, complete and   *)
(* not, and the function is applied to it.                                *)
(***************************************************************************)
MaxPieces == 3

ExtractPieces ==
    {ValidBlock, SeedBlock, EmptyObjectBlock, BadBlock, TextOnly, <<FenceJson>>,
     <<Fence>>}

ExtractInputs ==
    {Flatten(ps) : ps \in UNION {[1..n -> ExtractPieces] : n \in 0..MaxPieces}}

ExtractInit ==
    /\ ClientIdle
    /\ agent = "message_to_json"
    /\ apc = "called"
    /\ max_tries = 0
    /\ t = 0
    /\ type_list = << >>
    /\ typeIdx = 0
    /\ result = ""
    /\ EmptyMemory
    /\ attemptLog = << >>
    /\ files = << >>
    /\ seed_sequence_pairs = << >>
    /\ sequence_id = 0
    /\ escaped = ""
    /\ stage = 0
    /\ loaded = [c \in CollectionNames |-> EmptyCollection]
    /\ input \in ExtractInputs
    /\ output = << >>

\* the call returns: the except clause leaves no exception of json.loads through
Extract ==
    /\ apc = "called"
    /\ output' = message_to_json(input)
    /\ apc' = "returned"
    /\ UNCHANGED <<agent, max_tries, t, type_list, typeIdx, result, attemptLog, files,
                   seed_sequence_pairs, sequence_id, escaped, stage, loaded, input>>
    /\ UNCHANGED memory
    /\ UNCHANGED clientVars

SpecExtract == ExtractInit /\ [][Extract]_vars


\* the scenario: the extractor gives nothing on attempts 1 and 2 and a value on 3
Scenario == <<"empty", "empty", "valid">>

\* C10: a task with max_tries = 3 whose extractor gives nothing on attempts 1 and
\* 2 and a value on attempt 3 makes these three attempts, returns "Success" and
\* has added exactly one document, that value, to its collection
C10_ThirdAttemptCommits ==
    (/\ apc = "done"
     /\ max_tries = 3
     /\ agent # "develop_new_seed"
     /\ id_counter["FORMAT_ANALYST.id_counter_sequence"] = 0
     /\ (PerType(agent) \/ PerFile(agent)) => Len(Items) = 1
     /\ attemptLog # << >>
     /\ IsPrefix(attemptLog, Scenario))
    => (/\ attemptLog = Scenario
        /\ result = "Success"
        /\ DB[Collection(agent)].documents = << <<"{", "k:v", "}">> >>)

\* C11: in every agent task loop, an attempt whose exchange completes with a
\* valid extracted value commits that value to the collection of the agent, and
\* the method does not return "Failed" at that attempt, whatever its index, the
\* last one (max_tries - 1) included
C11_ValidAttemptSucceeds ==
    [][(/\ apc = "awaiting"
        /\ pc = "Done"
        /\ apc' # "awaiting"
        /\ ~(agent = "analyze_from_specification" /\ typeIdx = 0)
        /\ agent # "develop_new_seed"
        /\ message_to_json(Last(messages).content) # << >>)
       => (/\ DB'[Collection(agent)].documents =
                Append(DB[Collection(agent)].documents,
                       JsonDumps(message_to_json(Last(messages).content)))
           /\ result' # "Failed")]_vars

\* C12: a task all of whose max_tries attempts failed (the extractor gave
\* nothing, the exchange raised, or the reported seed was not validated) has
\* returned "Failed", never "Success"
C12_ExhaustedReturnsFailed ==
    (/\ apc = "done"
     /\ ~(agent = "analyze_from_specification" /\ typeIdx = 0)
     /\ Len(attemptLog) = max_tries
     /\ \A i \in 1..Len(attemptLog) : attemptLog[i] # "valid")
    => result = "Failed"

\* C13: an attempt whose extractor returns the empty value adds no document to
\* any collection and writes no snapshot, and the exchange is retried for the
\* same item while attempts remain
C13_EmptyAddsNothing ==
    [][(/\ apc = "awaiting"
        /\ pc = "Done"
        /\ apc' # "awaiting"
        /\ ~(agent = "analyze_from_specification" /\ typeIdx = 0)
        /\ message_to_json(Last(messages).content) = << >>)
       => (/\ DB' = DB
           /\ snapshots' = snapshots
           /\ (t < max_tries - 1) =>
                (apc' = "attempt" /\ t' = t + 1 /\ typeIdx' = typeIdx))]_vars

\* C14: for every logical task (the enumeration of the types, one type, one
\* file, one plan, one seed) the calls of process_messages_streaming made so
\* far, the running one included, never exceed max_tries, and an attempt is
\* started or running only with an index below max_tries
C14_AttemptsBounded ==
    /\ Len(attemptLog) + (IF apc = "awaiting" THEN 1 ELSE 0) <= max_tries
    /\ apc \in {"attempt", "awaiting"} => (t < max_tries /\ Len(attemptLog) = t)

\* C14 witness: a task has used all of its three or more attempts
C14_Witness ==
    /\ apc = "done"
    /\ max_tries >= 3
    /\ Len(attemptLog) = max_tries

\* C15: a fatal stream termination inside an attempt is caught and consumes
\* exactly that attempt with nothing committed: while an attempt remains the
\* next attempt of the same item starts, and on the last attempt the method
\* returns "Failed"
C15_FatalConsumesOneAttempt ==
    [][(/\ apc = "awaiting"
        /\ pc = "Fatal"
        /\ apc' # "awaiting")
       => (/\ DB' = DB
           /\ snapshots' = snapshots
           /\ seed_sequence_pairs' = seed_sequence_pairs
           /\ escaped' = ""
           /\ IF t < max_tries - 1
              THEN /\ apc' = "attempt"
                   /\ t' = t + 1
                   /\ typeIdx' = typeIdx
                   /\ attemptLog' = Append(attemptLog, "raised")
              ELSE /\ apc' = "done"
                   /\ result' = "Failed")]_vars

\* C15 witness: a task of two or more attempts all of whose exchanges raised,
\* the last one by a stream that ended with length or content_filter, has
\* returned "Failed"
C15_Witness ==
    /\ apc = "done"
    /\ result = "Failed"
    /\ failure \in {FatalFailure("length"), FatalFailure("content_filter")}
    /\ Len(attemptLog) = max_tries
    /\ max_tries >= 2
    /\ \A i \in 1..Len(attemptLog) : attemptLog[i] = "raised"

\* C16: after load_memory has filled a collection from a snapshot the collection
\* holds exactly the ids and documents of the snapshot, and every id a later
\* add_memory_entries allocates on that collection is greater than every id of
\* the snapshot
C16_ReloadResumesIds ==
    \A c \in CollectionNames :
        loaded[c] # EmptyCollection =>
            /\ addLog[c] = << >> => DB[c] = loaded[c]
            /\ \A i \in 1..Len(addLog[c]) : \A j \in 1..Len(loaded[c].ids) :
                   ParseInt(addLog[c][i]) > ParseInt(loaded[c].ids[j])

\* C17: over a run of stellafuzz the ids passed to add on each collection are
\* 0, 1, 2, ... in this order, none twice; the collection holds them all, and no
\* entry it held is removed or changed; so it is for sequence_DB, written by the
\* Format Analyst and then by the Sequence Planner
C17_IdsIncrease ==
    [][\A c \in CollectionNames :
          /\ addLog'[c] = [i \in 1..Len(addLog'[c]) |-> Str(i - 1)]
          /\ IsPrefix(addLog[c], addLog'[c])
          /\ DB'[c].ids = addLog'[c]
          /\ IsPrefix(DB[c].ids, DB'[c].ids)
          /\ IsPrefix(DB[c].documents, DB'[c].documents)]_vars

\* C17 witness: the Sequence Planner has added to the sequence_DB the Format
\* Analyst had written
C17_Witness ==
    /\ stage >= 4
    /\ id_counter["FORMAT_ANALYST.id_counter_sequence"] >= 1
    /\ id_counter["SEQUENCE_PLANNER.id_counter"] >
          id_counter["FORMAT_ANALYST.id_counter_sequence"]
    /\ Len(addLog["sequence_DB"]) = id_counter["SEQUENCE_PLANNER.id_counter"]

\* C18: between the steps of the agents the snapshot file with the largest
\* integer stem holds the complete ids and documents of its collection (a
\* collection without snapshot is empty), and a commit writes a file whose stem
\* is larger than every stem the directory had
C18_LatestSnapshotCurrent ==
    [][\A c \in CollectionNames :
          /\ IF JsonFiles(snapshots'[c]) = {}
             THEN DB'[c] = EmptyCollection
             ELSE /\ LatestSnapshot(snapshots'[c]).ids = DB'[c].ids
                  /\ LatestSnapshot(snapshots'[c]).documents = DB'[c].documents
          /\ DB'[c] # DB[c] =>
               \E f \in JsonFiles(snapshots'[c]) :
                   /\ f \notin JsonFiles(snapshots[c])
                   /\ \A g \in JsonFiles(snapshots[c]) :
                          ParseInt(Stem(f)) > ParseInt(Stem(g))]_vars

\* C18 witness: two commits to one collection have left two snapshots
C18_Witness ==
    \E c \in CollectionNames :
        /\ Len(DB[c].ids) >= 2
        /\ Cardinality(JsonFiles(snapshots[c])) >= 2
        /\ apc = "returned"

\* C19: develop_new_seed returns "Success" only if one of its attempts reported
\* status Success with a seed_name whose file existed, and seed_sequence_pairs
\* has an entry for the seed exactly in that case
C19_SuccessMeansValidated ==
    (agent = "develop_new_seed" /\ apc = "done") =>
        LET validated == \E i \in 1..Len(attemptLog) : attemptLog[i] = "valid"
        IN /\ result = "Success" => validated
           /\ (seed_sequence_pairs # << >>) <=> validated

\* C20: stellafuzz runs its six stages in program order, every stage returns
\* "Success" or "Failed" whatever the earlier stages returned, and no exception
\* leaves a stage
C20_EveryStageRuns ==
    /\ stage \in 1..Len(StageOrder) => agent = StageOrder[stage]
    /\ apc = "done" => result \in {"Success", "Failed"}
    /\ apc # "raised"
    /\ escaped = ""

\* C21: under fair scheduling a call of process_messages_streaming in which no
\* tool call raises and the stream does not fail ends in Done or Fatal once the
\* service ends a round with a reason other than tool_calls; and nothing but the
\* service bounds the cycles: whenever the results of a round are appended the
\* next request can be made, whatever the number of requests made so far
C21_EndsOrCycles ==
    /\ (<>(pc = "Raised")) \/ <>(pc \in {"Done", "Fatal"})
    /\ [][(pc = "AwaitingTools" /\ pc' = "AwaitingModel") =>
            (ENABLED RequestModel)']_vars

\* C21 witness: the service answered tool_calls in every round it had an event
\* for, a request followed each of them, and the call ended
C21_Witness ==
    /\ requests = MaxEvents + 1
    /\ pc = "Fatal"
    /\ Len(messages) >= Len(callStart) + MaxEvents

\* the terminal reasons the code names (lines 197, 207, 239, 241)
KnownReasons == {"stop", "tool_calls", "length", "content_filter"}

\* C22: a stream whose terminal reason is none of stop, tool_calls, length and
\* content_filter (no reason at all included) makes the call raise; nothing is
\* appended to the message list and no tool is dispatched
C22_UnknownReasonRaises ==
    [][(/\ pc = "Streaming"
        /\ finish_reason \notin KnownReasons
        /\ pc' \notin {"Streaming", "Raised"})
       => (/\ pc' = "Fatal"
           /\ failure' = Exception("ValueError",
                  <<"[ERROR] Unknown finish reason during streaming", finish_reason>>)
           /\ messages' = messages
           /\ tasks' = << >>
           /\ orphans' = orphans)]_vars

\* a stream that delivered events and never a terminal reason
C22_Witness ==
    /\ pc = "Fatal"
    /\ failure = FatalFailure("")
    /\ budget < MaxEvents
    /\ messages = callStart
    /\ tasks = << >>

\* the fatal case a terminal reason falls in (lines 239, 241, 245)
FatalCase(reason) ==
    IF reason \in {"length", "content_filter"} THEN reason ELSE "unrecognized"

\* the terminal reasons that end a round in Fatal
FatalReasons == (FinishReasons \cup {""}) \ {"stop", "tool_calls"}

\* C23: the failures of the three fatal cases (length, content_filter,
\* unrecognized reason) are of pairwise distinct kinds: the kind of the failure a
\* round raises is the kind of no failure of another fatal case
C23_FatalKindsDistinct ==
    [][(pc = "Streaming" /\ pc' = "Fatal")
       => \A r \in FatalReasons :
             FatalCase(r) # FatalCase(finish_reason)
                => FatalFailure(r).type # failure'.type]_vars

\* C24: a round that does not end in a failure appends exactly one assistant
\* message; the terminal reason alone decides its shape: after stop it has the text
\* content and no tool_calls, after tool_calls it has the tool-call list and no
\* content, whatever fragments of the other sort the stream delivered
C24_OneMessagePerRound ==
    [][(pc = "Streaming" /\ pc' \in {"Done", "AwaitingTools"})
       => /\ Len(messages') = Len(messages) + 1
          /\ IsPrefix(messages, messages')
          /\ finish_reason \in {"stop", "tool_calls"}
          /\ LET m == Last(messages')
             IN /\ m.role = "assistant"
                /\ finish_reason = "stop" =>
                      /\ pc' = "Done"
                      /\ DOMAIN m = {"role", "content"}
                      /\ m.content = Flatten(contentLog)
                /\ finish_reason = "tool_calls" =>
                      /\ pc' = "AwaitingTools"
                      /\ DOMAIN m = {"role", "tool_calls"}
                      /\ Len(m.tool_calls) = Cardinality(SeenIndices(deltaLog))]_vars

\* a stream with text and a tool-call delta ended with tool_calls: the message
\* holds the call and no content
C24_Witness ==
    /\ pc = "AwaitingTools"
    /\ Flatten(contentLog) # << >>
    /\ deltaLog # << >>
    /\ DOMAIN Last(messages) = {"role", "tool_calls"}
    /\ Len(Last(messages).tool_calls) = 1

\* C25: the message list is append-only at every step of a call: over all round
\* trips, and when the call ends in Done, in Fatal or with a tool's exception, what
\* the list held before the step is still there, in place
C25_AppendOnly ==
    [][IsPrefix(messages, messages')]_vars

\* a call that went through a tool round trip and then failed: the caller's
\* messages, the tool-call message and the tool result are all there
C25_Witness ==
    /\ pc = "Fatal"
    /\ requests = 2
    /\ IsPrefix(callStart, messages)
    /\ Len(messages) = Len(callStart) + 2
    /\ IsToolCallMessage(messages[Len(callStart) + 1])
    /\ Last(messages).role = "tool"

\* the fenced blocks of a text: an opening fence, the first fence after it, and
\* the stripped text in between
BlockAt(text, i, j) ==
    /\ text[i] = FenceJson
    /\ j > i
    /\ text[j] \in {Fence, FenceJson}
    /\ \A n \in (i + 1)..(j - 1) : text[n] \notin {Fence, FenceJson}

HasBlock(text) == \E i, j \in 1..Len(text) : BlockAt(text, i, j)

\* C26: message_to_json raises for no text; it returns the parsed value of the
\* fenced json block when there is one and it parses, and the empty mapping when
\* there is no block or the block does not parse; of several blocks only the
\* first counts
C26_FirstBlockOrEmpty ==
    /\ escaped = ""
    /\ agent = "message_to_json" => apc \in {"called", "returned"}
    /\ (agent = "message_to_json" /\ apc = "returned") =>
          /\ ~HasBlock(input) => output = << >>
          /\ \A i, j \in 1..Len(input) :
                (/\ BlockAt(input, i, j)
                 /\ \A n \in 1..(i - 1) : input[n] # FenceJson)
                => LET json_str == Strip(SubSeq(input, i + 1, j - 1))
                   IN output = IF IsJsonObject(json_str)
                               THEN SubSeq(json_str, 2, Len(json_str) - 1)
                               ELSE << >>

\* a text, then a block that parses, then another block with another value: the
\* value of the first block is returned
C26_Witness ==
    /\ agent = "message_to_json"
    /\ apc = "returned"
    /\ input = TextOnly \o ValidBlock \o SeedBlock
    /\ output = <<"k:v">>

\* C27: every attempt submits a conversation built for it: exactly one system
\* message and one user message, the same at every attempt, with nothing of the
\* attempts before it
C27_FreshConversation ==
    /\ [][(apc = "attempt" /\ apc' = "awaiting")
          => /\ Len(messages') = 2
             /\ messages'[1] = [role |-> "system", content |-> <<"system prompt", agent>>]
             /\ messages'[2] = [role |-> "user", content |-> <<"user prompt", agent>>]]_vars
    /\ [][(apc = "awaiting" /\ requests = 0 /\ requests' = 1)
          => /\ Len(roundStart') = 2
             /\ roundStart'[1].role = "system"
             /\ roundStart'[2].role = "user"]_vars

\* the request of a third attempt, after two attempts that failed
C27_Witness ==
    /\ apc = "awaiting"
    /\ t = 2
    /\ Len(attemptLog) = 2
    /\ requests = 1
    /\ Len(roundStart) = 2

\* C28: every text part of a successful tool result is a prefix of the text the
\* tool gave for that part, of at most 256000 characters, each part on its own;
\* the error message embedded after the last failed invocation is embedded whole,
\* whatever its length
C28_TextPartsCapped ==
    \A k \in DOMAIN tasks :
        LET task == tasks[k]
        IN (task.pc = "done") =>
             LET r == Last(task.log)
                 results == task.out[1].content.results
             IN IF r.isError
                THEN /\ Len(results) = 1
                     /\ results[1] = ErrorMarker \o Flatten(Texts(r.content))
                ELSE /\ Len(results) = Len(r.content)
                     /\ \A i \in 1..Len(results) :
                           /\ Len(results[i]) <= 256000
                           /\ IsPrefix(results[i], r.content[i].text)

\* a result of two parts, the first longer than the limit: the first is cut at
\* the limit, the second is whole
C28_Witness ==
    /\ tasks # << >>
    /\ tasks[1].pc = "done"
    /\ ~Last(tasks[1].log).isError
    /\ Len(Last(tasks[1].log).content) = 2
    /\ Len(Last(tasks[1].log).content[1].text) > TextCap
    /\ Len(tasks[1].out[1].content.results[1]) = TextCap
    /\ tasks[1].out[1].content.results[2] = <<"p">>

\* C29: the tool-call requests of the assistant message are listed in ascending
\* stream index, whatever the order in which the indices first appeared in the
\* stream, and the tool-result messages are appended in the order of the requests,
\* whatever the order in which the concurrent calls returned
C29_IndexOrder ==
    /\ [][(pc = "Streaming" /\ pc' = "AwaitingTools")
          => LET calls == Last(messages').tool_calls
                 seen == SeenIndices(deltaLog)
                 rank(i) == Cardinality({j \in seen : j < i}) + 1
             IN /\ Len(calls) = Cardinality(seen)
                /\ \A i \in seen : calls[rank(i)] = FinalToolCall(i, tool_calls_acc[i])]_vars
    /\ [][(pc = "AwaitingTools" /\ pc' = "AwaitingModel")
          => LET calls == Last(messages).tool_calls
             IN /\ Len(messages') = Len(messages) + Len(calls)
                /\ IsPrefix(messages, messages')
                /\ \A k \in 1..Len(calls) :
                      /\ tasks[k].call = calls[k]
                      /\ messages'[Len(messages) + k] = tasks[k].out[1]
                      /\ messages'[Len(messages) + k].tool_call_id = calls[k].id]_vars

\* index 1 appeared before index 0 and the call of index 1 returned before the
\* call of index 0: requests and results are in the order 0, 1
C29_Witness ==
    /\ pc = "AwaitingModel"
    /\ requests = 1
    /\ Len(deltaLog) = 2
    /\ deltaLog[1].index = 1
    /\ deltaLog[2].index = 0
    /\ doneLog = <<2, 1>>
    /\ Len(messages) = Len(callStart) + 3
    /\ messages[Len(callStart) + 1].tool_calls[1].id = <<"tool_", 0>>
    /\ messages[Len(callStart) + 2].tool_call_id = <<"tool_", 0>>
    /\ messages[Len(callStart) + 3].tool_call_id = <<"tool_", 1>>

\* the exceptions that leave process_tool_call: the arguments are no JSON text, the
\* transport raises, a part of the result is not text
ToolExceptions == {"JSONDecodeError", "TransportError", "NotImplementedError"}

\* C30: when a tool call raises, process_messages_streaming raises that exception;
\* the assistant message with the tool calls is in the list, none of the round's
\* tool results is, no further request is made, and the failure is not turned into
\* a result
C30_ToolExceptionPropagates ==
    /\ [][(/\ pc = "AwaitingTools"
           /\ \E k \in DOMAIN tasks : tasks[k].pc = "raised"
           /\ pc' # "AwaitingTools")
          => /\ pc' = "Raised"
             /\ \E k \in DOMAIN tasks :
                   /\ tasks[k].pc = "raised"
                   /\ failure' = Exception(tasks[k].exc, << >>)
             /\ messages' = messages
             /\ messages' = Append(roundStart, Last(messages))
             /\ IsToolCallMessage(Last(messages'))
             /\ requests' = requests]_vars
    /\ [][(pc = "Raised") =>
             (pc' = "Raised" /\ messages' = messages /\ requests' = requests)]_vars

\* two calls were requested, the first returned its message and the second got a
\* part that is no text: the call ends with that exception and the list ends with
\* the assistant message
C30_Witness ==
    /\ pc = "Raised"
    /\ failure.type = "NotImplementedError"
    /\ failure.type \in ToolExceptions
    /\ doneLog = <<1>>
    /\ messages = Append(callStart, Last(messages))
    /\ IsToolCallMessage(Last(messages))
    /\ Len(Last(messages).tool_calls) = 2
    /\ requests = 1

RECURSIVE LastId(_, _)
\* the last non-empty id among the recorded deltas of index idx (<< >> if none)
LastId(log, idx) ==
    IF log = << >> THEN << >>
    ELSE LET d == Last(log)
         IN IF d.index = idx /\ d.id # << >> THEN d.id
            ELSE LastId(SubSeq(log, 1, Len(log) - 1), idx)

RECURSIVE LastName(_, _)
\* the last non-empty name among the recorded deltas of index idx ("" if none)
LastName(log, idx) ==
    IF log = << >> THEN ""
    ELSE LET d == Last(log)
         IN IF d.index = idx /\ d.function # << >> /\ d.function[1].name # "" 
            THEN d.function[1].name
            ELSE LastName(SubSeq(log, 1, Len(log) - 1), idx)

\* C31: the finalized id of a stream index is the last non-empty id seen for it,
\* or tool_<index> when none was seen: it is never empty and the synthetic ids of
\* two indices differ; the finalized name is the last non-empty name seen for the
\* index (a later name replaces an earlier one)
C31_LastIdAndName ==
    (pc = "AwaitingTools") =>
        LET calls == Last(messages).tool_calls
            seen == SeenIndices(deltaLog)
            rank(i) == Cardinality({j \in seen : j < i}) + 1
            synthetic == {i \in seen : LastId(deltaLog, i) = << >>}
        IN /\ Len(calls) = Cardinality(seen)
           /\ \A i \in seen :
                 /\ calls[rank(i)].id # << >>
                 /\ calls[rank(i)].id = IF i \in synthetic THEN <<"tool_", i>>
                                        ELSE LastId(deltaLog, i)
                 /\ calls[rank(i)].function.name = LastName(deltaLog, i)
           /\ \A i, j \in synthetic : i # j => calls[rank(i)].id # calls[rank(j)].id

\* index 0 got the id c1 and then c2, the name echo and then read; index 1 got
\* neither
C31_Witness ==
    /\ pc = "AwaitingTools"
    /\ Len(deltaLog) = 3
    /\ deltaLog[1].index = 0 /\ deltaLog[1].id = <<"c1">>
    /\ deltaLog[1].function[1].name = "echo"
    /\ deltaLog[2].index = 0 /\ deltaLog[2].id = <<"c2">>
    /\ deltaLog[2].function[1].name = "read"
    /\ deltaLog[3] = BareDelta(1)
    /\ Last(messages).tool_calls[1].id = <<"c2">>
    /\ Last(messages).tool_calls[1].function.name = "read"
    /\ Last(messages).tool_calls[2].id = <<"tool_", 1>>

InFlight ==
    \/ \E k \in DOMAIN tasks : tasks[k].pc = "calling"
    \/ \E k \in DOMAIN orphans : orphans[k].pc = "calling"

\* C33: no snapshot file of any collection is written while a tool dispatch is in
\* flight
C33_NoSnapshotDuringDispatch ==
    [][(snapshots' # snapshots) => ~InFlight]_vars

\* C34: in the methods that run one task per item (design_field and
\* analyze_from_specification per type, extract_sequence_from_inputs per file) a
\* transport or fatal failure on the last attempt of an item makes the method
\* return "Failed" at once: no exchange is started for a later item, and the
\* documents committed for earlier items stay in the collection
C34_FailureEndsAllItems ==
    /\ [][(/\ PerType(agent) \/ PerFile(agent)
           /\ typeIdx >= 1
           /\ apc = "awaiting"
           /\ pc \in {"Fatal", "Raised"}
           /\ pc' = "Idle"
           /\ t = max_tries - 1)
          => /\ apc' = "done"
             /\ result' = "Failed"
             /\ typeIdx' = typeIdx
             /\ DB' = DB
             /\ snapshots' = snapshots]_vars
    /\ [][(apc = "done") => (apc' = "done" /\ pc' = pc /\ DB' = DB)]_vars

\* the first item got its document, the last attempt of the second item failed
C34_Witness ==
    /\ PerType(agent) \/ PerFile(agent)
    /\ apc = "done"
    /\ result = "Failed"
    /\ Len(Items) = 2
    /\ typeIdx = 2
    /\ Last(attemptLog) = "raised"
    /\ Len(DB[Collection(agent)].documents) >= 1

\* C35: in analyze_from_specification the enumeration of the types ends at the
\* first attempt whose exchange completes, also when the extractor gave nothing or
\* a value without types; type_list is then what it was, and with an empty
\* type_list the per-type loop, and later design_field, start no exchange, commit
\* nothing and return "Success"
C35_EnumerationEndsAtFirstReply ==
    /\ [][(/\ agent = "analyze_from_specification"
           /\ typeIdx = 0
           /\ apc = "awaiting"
           /\ pc = "Done"
           /\ pc' = "Idle")
          => LET response == Last(messages).content
             IN /\ ~(apc' = "attempt" /\ typeIdx' = 0)
                /\ Types(message_to_json(response)) = << >> => type_list' = type_list
                /\ type_list' = << >> =>
                      /\ apc' = "done"
                      /\ result' = "Success"
                      /\ DB' = DB
                      /\ snapshots' = snapshots]_vars
    /\ [][(agent = "design_field" /\ apc = "called" /\ type_list = << >>
             /\ apc' # "called")
          => /\ apc' = "done"
             /\ result' = "Success"
             /\ DB' = DB
             /\ snapshots' = snapshots
             /\ requests' = requests
             /\ pc' = "Idle"]_vars

\* the first reply had a value without types: the method returned "Success" after
\* one exchange and committed nothing
C35_Witness ==
    /\ agent = "analyze_from_specification"
    /\ apc = "done"
    /\ result = "Success"
    /\ type_list = << >>
    /\ attemptLog = <<"valid">>
    /\ max_tries > 1
    /\ DB["format_spec_DB"] = EmptyCollection

\* C36: the sequence the Developer works from is the document whose id is the
\* size of sequence_DB minus one when the Developer is started: the sequence
\* committed last, and always a document that exists
C36_DeveloperReadsLastSequence ==
    (agent = "develop_new_seed" /\ stage = Len(StageOrder) /\ apc = "called") =>
        LET coll == DB["sequence_DB"]
        IN /\ sequence_id = Len(coll.ids) - 1
           /\ Contains(coll.ids, Str(sequence_id))
           /\ Last(addLog["sequence_DB"]) = Str(sequence_id)
           /\ DocumentOf(coll, Str(sequence_id)) = Last(coll.documents)

\* C37: load_memory called with a name other than component_DB,
\* format_spec_DB and sequence_DB, or pointed at a directory without a ".json"
\* file whose stem is all digits, returns an error value and leaves every
\* collection as it was; otherwise it adds the entries of the one snapshot
\* whose stem is the largest number (10.json, not 9.json) and of no other.
C37_LoadsLargestNumber ==
    [][(apc = "loading" /\ <<input, output, DB>>' # <<input, output, DB>>) =>
         LET db_name == input'[1]
             dir == input'[2]
             numbered == {f \in DOMAIN dir :
                            /\ Last(f) = ".json"
                            /\ Len(f) > 1
                            /\ \A i \in 1..(Len(f) - 1) : f[i] \in Digits}
             number(f) == ParseInt(SubSeq(f, 1, Len(f) - 1))
         IN IF \/ db_name \notin {"component_DB", "format_spec_DB", "sequence_DB"}
               \/ numbered = {}
            THEN /\ output'[1] = "[ERROR]"
                 /\ DB' = DB
            ELSE \E f \in numbered :
                    /\ \A g \in numbered : number(g) <= number(f)
                    /\ output' = <<"None">>
                    /\ DB' = [DB EXCEPT ![db_name] =
                                 Add(@, dir[f].ids, dir[f].documents)]]_vars

\* a directory with 9.json and 10.json was given and the ten entries of
\* 10.json are in the collection
C37_Witness ==
    /\ apc = "loading"
    /\ input # << >>
    /\ input[1] = "sequence_DB"
    /\ <<"9", ".json">> \in DOMAIN input[2]
    /\ <<"1", "0", ".json">> \in DOMAIN input[2]
    /\ <<"n", "o", "t", "e", "s", ".json">> \in DOMAIN input[2]
    /\ output = <<"None">>
    /\ Len(DB["sequence_DB"].ids) = 10

====
